---------------------------- MODULE Spec2Model ----------------------------
(***************************************************************************)
(* Weekly digest system (final_weekly_digest_system.py): the message      *)
(* classifier, the field extractors, the digest aggregation and rendering, *)
(* the display-name cache and the run entry point, as a state machine.     *)
(*                                                                         *)
(* A Python str is a sequence of one-character strings; positions are      *)
(* 0-based as in the source.  The float resolution_confidence is counted   *)
(* in tenths (0.5 is 5, 1.0 is 10).                                        *)
(***************************************************************************)
EXTENDS Integers, Sequences, FiniteSets, TLC

(***************************************************************************)
(* State                                                                   *)
(***************************************************************************)
VARIABLES
    studied,      \* the message whose classification is studied
    arg,          \* the argument of the latest categorize_message call
    category,     \* the dict the latest categorize_message call returned
    path,         \* the workflow branches that call ran
    original,     \* the message sequence the caller holds
    failing,      \* the user ids for which users.info raises SlackApiError
    held,         \* the list object the caller passes (sorted in place by a run)
    users_cache,  \* self.users_cache
    first_run,    \* the first generate_final_digest_content call and its result
    last_run,     \* the latest generate_final_digest_content call and its result
    pc,           \* where the script is: before or after its entry point call
    run,          \* the create_weekly_digest_for_channel call and its result
    lookups,      \* how often users.info was called for each user id so far
    sent,         \* the latest send_digest_to_slack_channel call and its result
    extracted     \* what the extractors and the preview return for the studied text

vars == <<studied, arg, category, path, original, failing, held, users_cache,
          first_run, last_run, pc, run, lookups, sent, extracted>>

classifyVars == <<studied, arg, category, path>>

digestVars == <<original, failing, held, users_cache, first_run, last_run, lookups>>

runVars == <<pc, run, sent>>

extractVars == <<extracted>>

(***************************************************************************)
(* Python str primitives                                                   *)
(***************************************************************************)
UpperLetters ==
    {"A", "B", "C", "D", "E", "F", "G", "H", "I", "J", "K", "L", "M",
     "N", "O", "P", "Q", "R", "S", "T", "U", "V", "W", "X", "Y", "Z"}

LowerLetters ==
    {"a", "b", "c", "d", "e", "f", "g", "h", "i", "j", "k", "l", "m",
     "n", "o", "p", "q", "r", "s", "t", "u", "v", "w", "x", "y", "z"}

Digits == {"0", "1", "2", "3", "4", "5", "6", "7", "8", "9"}

LowerMap ==
    "A" :> "a" @@ "B" :> "b" @@ "C" :> "c" @@ "D" :> "d" @@ "E" :> "e" @@
    "F" :> "f" @@ "G" :> "g" @@ "H" :> "h" @@ "I" :> "i" @@ "J" :> "j" @@
    "K" :> "k" @@ "L" :> "l" @@ "M" :> "m" @@ "N" :> "n" @@ "O" :> "o" @@
    "P" :> "p" @@ "Q" :> "q" @@ "R" :> "r" @@ "S" :> "s" @@ "T" :> "t" @@
    "U" :> "u" @@ "V" :> "v" @@ "W" :> "w" @@ "X" :> "x" @@ "Y" :> "y" @@
    "Z" :> "z"

\* str.lower()
Lower(s) == [i \in 1..Len(s) |-> IF s[i] \in UpperLetters THEN LowerMap[s[i]] ELSE s[i]]

IsSpace(c) == c \in {" ", "\n", "\t"}

\* the regex class \w and the classes [A-Z] and \d
IsWordChar(c) == c \in UpperLetters \cup LowerLetters \cup Digits \cup {"_"}

\* s[i] with a 0-based index
At(s, i) == s[i + 1]

\* s[a:b] for 0 <= a, 0 <= b
Slice(s, a, b) == SubSeq(s, a + 1, IF b < Len(s) THEN b ELSE Len(s))

\* the least element of a non-empty set of integers
Least(S) == CHOOSE i \in S : \A j \in S : i <= j

\* s.find(p, start): the lowest index >= start where p occurs, else -1
Find(s, p, start) ==
    LET hits == {i \in start..(Len(s) - Len(p)) : SubSeq(s, i + 1, i + Len(p)) = p}
    IN  IF hits = {} THEN -1 ELSE Least(hits)

\* p in s
Contains(p, s) == Find(s, p, 0) # -1

\* any(word in text for word in words)
AnyIn(words, text) == \E k \in 1..Len(words) : Contains(words[k], text)

\* s.lstrip()
LStrip(s) ==
    SubSeq(s, Least({k \in 1..(Len(s) + 1) : k = Len(s) + 1 \/ ~IsSpace(s[k])}), Len(s))

\* s.rstrip()
RStrip(s) ==
    SubSeq(s, 1, Len(s) - Least({k \in 0..Len(s) : k = Len(s) \/ ~IsSpace(s[Len(s) - k])}))

\* str.strip()
Strip(s) == RStrip(LStrip(s))

\* s.replace(old, new) for a one-character old
ReplaceChar(s, old, new) ==
    [i \in 1..Len(s) |-> IF s[i] = old THEN new ELSE s[i]]

\* s.replace('*', '')
RemoveStars(s) == SelectSeq(s, LAMBDA c : c # "*")

\* .strip().replace('*', '').strip()
TrimValue(s) == Strip(RemoveStars(Strip(s)))

(***************************************************************************)
(* Labels, terminators and keyword lists of the source                     *)
(***************************************************************************)
\* 'request type:'
LblRequestTypeLower ==
    <<"r", "e", "q", "u", "e", "s", "t", " ", "t", "y", "p", "e", ":">>
\* '*priority:*'
TermPriorityLower ==
    <<"*", "p", "r", "i", "o", "r", "i", "t", "y", ":", "*">>
\* '*subrequest type:*'
TermSubrequestLower ==
    <<"*", "s", "u", "b", "r", "e", "q", "u", "e", "s", "t", " ", "t", "y", "p", "e", ":", "*">>
\* 'Request Type:'
LblRequestType ==
    <<"R", "e", "q", "u", "e", "s", "t", " ", "T", "y", "p", "e", ":">>
\* '*Priority:*'
TermPriority ==
    <<"*", "P", "r", "i", "o", "r", "i", "t", "y", ":", "*">>
\* '*Subrequest Type:*'
TermSubrequest ==
    <<"*", "S", "u", "b", "r", "e", "q", "u", "e", "s", "t", " ", "T", "y", "p", "e", ":", "*">>
\* 'Subrequest Type:'
LblSubrequestType ==
    <<"S", "u", "b", "r", "e", "q", "u", "e", "s", "t", " ", "T", "y", "p", "e", ":">>
\* '*Summary:*'
LblSummary ==
    <<"*", "S", "u", "m", "m", "a", "r", "y", ":", "*">>
\* '*Description:*'
LblDescription ==
    <<"*", "D", "e", "s", "c", "r", "i", "p", "t", "i", "o", "n", ":", "*">>
\* '*Application Name:*'
TermApplication ==
    <<"*", "A", "p", "p", "l", "i", "c", "a", "t", "i", "o", "n", " ", "N", "a", "m", "e", ":", "*">>
\* '*Alias or Service ID:*'
TermAlias ==
    <<"*", "A", "l", "i", "a", "s", " ", "o", "r", " ", "S", "e", "r", "v", "i", "c", "e", " ", "I", "D", ":", "*">>
\* '*Division:*'
TermDivision ==
    <<"*", "D", "i", "v", "i", "s", "i", "o", "n", ":", "*">>
\* ['urgent', 'critical', 'emergency', 'asap', 'blocking']
HighKeywords ==
    << <<"u", "r", "g", "e", "n", "t">>,
       <<"c", "r", "i", "t", "i", "c", "a", "l">>,
       <<"e", "m", "e", "r", "g", "e", "n", "c", "y">>,
       <<"a", "s", "a", "p">>,
       <<"b", "l", "o", "c", "k", "i", "n", "g">> >>
\* ['low', 'minor', 'nice to have', 'enhancement']
LowKeywords ==
    << <<"l", "o", "w">>,
       <<"m", "i", "n", "o", "r">>,
       <<"n", "i", "c", "e", " ", "t", "o", " ", "h", "a", "v", "e">>,
       <<"e", "n", "h", "a", "n", "c", "e", "m", "e", "n", "t">> >>
\* ['?', 'question', 'how', 'what', 'why', 'when', 'where', 'can you', 'could you', 'help']
QuestionKeywords ==
    << <<"?">>,
       <<"q", "u", "e", "s", "t", "i", "o", "n">>,
       <<"h", "o", "w">>,
       <<"w", "h", "a", "t">>,
       <<"w", "h", "y">>,
       <<"w", "h", "e", "n">>,
       <<"w", "h", "e", "r", "e">>,
       <<"c", "a", "n", " ", "y", "o", "u">>,
       <<"c", "o", "u", "l", "d", " ", "y", "o", "u">>,
       <<"h", "e", "l", "p">> >>
\* ['nucleus', 'nucleus dashboard']
NucleusKeywords ==
    << <<"n", "u", "c", "l", "e", "u", "s">>,
       <<"n", "u", "c", "l", "e", "u", "s", " ", "d", "a", "s", "h", "b", "o", "a", "r", "d">> >>
\* ['trust', 'trust view', 'trust dashboard']
TrustKeywords ==
    << <<"t", "r", "u", "s", "t">>,
       <<"t", "r", "u", "s", "t", " ", "v", "i", "e", "w">>,
       <<"t", "r", "u", "s", "t", " ", "d", "a", "s", "h", "b", "o", "a", "r", "d">> >>
\* ['search', 'search 3.0', 'ingestion']
SearchKeywords ==
    << <<"s", "e", "a", "r", "c", "h">>,
       <<"s", "e", "a", "r", "c", "h", " ", "3", ".", "0">>,
       <<"i", "n", "g", "e", "s", "t", "i", "o", "n">> >>
\* ['deployment', 'production', 'staging']
DeploymentKeywords ==
    << <<"d", "e", "p", "l", "o", "y", "m", "e", "n", "t">>,
       <<"p", "r", "o", "d", "u", "c", "t", "i", "o", "n">>,
       <<"s", "t", "a", "g", "i", "n", "g">> >>

(***************************************************************************)
(* extract_jira_tickets                                                    *)
(***************************************************************************)
\* the end of the longest run of characters of class cls starting at i
RunEnd(s, i, cls) ==
    IF i >= Len(s) THEN i
    ELSE Least({k \in i..Len(s) : k = Len(s) \/ At(s, k) \notin cls})

\* \b before position i, where a word character starts
BoundaryBefore(s, i) == i = 0 \/ ~IsWordChar(At(s, i - 1))

\* \b after position k - 1, where a word character ends
BoundaryAfter(s, k) == k = Len(s) \/ ~IsWordChar(At(s, k))

\* the end of the match of \b[A-Z]+-\d+\b that starts at i, else -1
JiraMatchEnd(s, i) ==
    LET j == RunEnd(s, i, UpperLetters)
        k == RunEnd(s, j + 1, Digits)
    IN  IF /\ BoundaryBefore(s, i)
           /\ j > i
           /\ j < Len(s)
           /\ At(s, j) = "-"
           /\ k > j + 1
           /\ BoundaryAfter(s, k)
        THEN k
        ELSE -1

RECURSIVE Ascending(_)
\* the elements of a finite set of integers in ascending order
Ascending(S) == IF S = {} THEN <<>> ELSE <<Least(S)>> \o Ascending(S \ {Least(S)})

\* re.findall(jira_pattern, text) from position i on: the matches from left
\* to right (a match starts at a word boundary in front of an upper-case
\* letter, and no such place lies inside another match)
FindAllJira(s, i) ==
    LET starts == Ascending({k \in i..(Len(s) - 1) : JiraMatchEnd(s, k) # -1})
    IN  [n \in 1..Len(starts) |-> Slice(s, starts[n], JiraMatchEnd(s, starts[n]))]

\* the elements of a sequence
Range(q) == {q[i] : i \in 1..Len(q)}

\* list(set(x)): the iteration order of a set of str is not fixed by the
\* language (it follows the per-process string hashes), so every order of the
\* distinct elements is a possible result
ListOfSet(S) ==
    {q \in [1..Cardinality(S) -> S] : \A i, j \in 1..Cardinality(S) : q[i] = q[j] => i = j}

\* extract_jira_tickets(text): the lists it can return
extract_jira_tickets(text) == ListOfSet(Range(FindAllJira(text, 0)))

(***************************************************************************)
(* categorize_message                                                      *)
(***************************************************************************)
RequestTypeWindow == 50

\* the severity test with the low keywords looked up first
SeverityLowFirst(text) ==
    IF AnyIn(LowKeywords, text) THEN "Low"
    ELSE IF AnyIn(HighKeywords, text) THEN "High"
    ELSE "Medium"

\* severity, lines 250-255
Severity(text) ==
    IF AnyIn(HighKeywords, text) THEN "High"
    ELSE IF AnyIn(LowKeywords, text) THEN "Low"
    ELSE "Medium"

\* the end of the request-type value in the lower-cased text, lines 266-270
RequestTypeEnd(text, start) ==
    LET e1 == Find(text, TermPriorityLower, start)
        e2 == Find(text, TermSubrequestLower, start)
    IN  IF e1 # -1 THEN e1
        ELSE IF e2 # -1 THEN e2
        ELSE start + RequestTypeWindow

\* request_type, lines 265-272
RequestTypeValue(text) ==
    LET start == Find(text, LblRequestTypeLower, 0) + Len(LblRequestTypeLower)
    IN  TrimValue(Slice(text, start, RequestTypeEnd(text, start)))

\* the branch taken when the label occurs, lines 274-279
WorkflowFromField(request_type) ==
    IF Contains(NucleusKeywords[1], request_type) THEN "Nucleus"
    ELSE IF Contains(TrustKeywords[2], request_type) THEN "Trust View"
    ELSE IF Contains(TrustKeywords[3], request_type) THEN "Trust View"
    ELSE "Other"

\* the fallback with the trust keywords looked up before the nucleus ones
WorkflowFallbackTrustFirst(text) ==
    IF AnyIn(TrustKeywords, text) THEN "Trust View"
    ELSE IF AnyIn(NucleusKeywords, text) THEN "Nucleus"
    ELSE IF AnyIn(SearchKeywords, text) THEN "Search"
    ELSE IF AnyIn(DeploymentKeywords, text) THEN "Deployment"
    ELSE "Other"

\* the else branch, lines 281-289
WorkflowFallback(text) ==
    IF AnyIn(NucleusKeywords, text) THEN "Nucleus"
    ELSE IF AnyIn(TrustKeywords, text) THEN "Trust View"
    ELSE IF AnyIn(SearchKeywords, text) THEN "Search"
    ELSE IF AnyIn(DeploymentKeywords, text) THEN "Deployment"
    ELSE "Other"

\* which of the two branches of lines 264-289 runs
WorkflowPath(text) ==
    IF Contains(LblRequestTypeLower, text) THEN {"field"} ELSE {"fallback"}

\* workflow, lines 260-289
Workflow(text) ==
    IF Contains(LblRequestTypeLower, text)
    THEN WorkflowFromField(RequestTypeValue(text))
    ELSE WorkflowFallback(text)

\* Optional[X]: None is the empty sequence, a value x is <<x>>
None == <<>>

Some(x) == <<x>>

\* the truth value Python gives an Optional[str] or Optional[List]
Truthy(o) == o # None /\ o[1] # <<>>

\* len(message.reactions) if message.reactions else 0, line 304
ReactionCount(reactions) ==
    IF Truthy(reactions) THEN Len(reactions[1]) ELSE 0

\* the confidence sum returned without min(..., 1.0)
ResolutionConfidenceUnclamped(thread_ts, reactions) ==
    5 + (IF Truthy(thread_ts) THEN 3 ELSE 0)
      + (IF Truthy(reactions) THEN Len(reactions[1]) ELSE 0)

\* resolution_confidence in tenths, lines 292-296 and 305
ResolutionConfidence(thread_ts, reactions) ==
    LET base == 5
        withThread == IF Truthy(thread_ts) THEN base + 3 ELSE base
        total == IF Truthy(reactions)
                 THEN withThread + Len(reactions[1]) * 1
                 ELSE withThread
    IN  IF total < 10 THEN total ELSE 10

\* categorize_message(message), given the list extract_jira_tickets returned
Categorize(message, jira_tickets) ==
    LET text == Lower(message.text)
    IN  [severity |-> Severity(text),
         is_question |-> AnyIn(QuestionKeywords, text),
         workflow |-> Workflow(text),
         jira_tickets |-> jira_tickets,
         has_thread |-> message.thread_ts # None,
         reaction_count |-> ReactionCount(message.reactions),
         resolution_confidence |-> ResolutionConfidence(message.thread_ts, message.reactions)]

\* the results categorize_message(message) can return
categorize_message(message) ==
    {Categorize(message, q) : q \in extract_jira_tickets(message.text)}

(***************************************************************************)
(* Field extraction: _extract_subject, _extract_summary,                   *)
(* _extract_description, _extract_actual_user                              *)
(***************************************************************************)
\* 'New request from <@'
PrefixNewRequest ==
    <<"N", "e", "w", " ", "r", "e", "q", "u", "e", "s", "t", " ", "f", "r", "o", "m", " ", "<", "@">>
\* '> via'
SuffixVia ==
    <<">", " ", "v", "i", "a">>
\* '<@'
MentionOpen ==
    <<"<", "@">>
\* '...'
Ellipsis ==
    <<".", ".", ".">>
\* 'No subject'
NoSubject ==
    <<"N", "o", " ", "s", "u", "b", "j", "e", "c", "t">>

SubjectWindow == 50
SubrequestWindow == 30
FirstLineLimit == 30
SummaryWindow == 200
DescriptionWindow == 300
PreviewLineLimit == 120

RECURSIVE SplitOn(_, _)
\* s.split(sep) for a one-character sep
SplitOn(s, sep) ==
    LET i == Find(s, <<sep>>, 0)
    IN  IF i = -1 THEN <<s>>
        ELSE <<Slice(s, 0, i)>> \o SplitOn(Slice(s, i + 1, Len(s)), sep)

RECURSIVE SplitWords(_)
\* s.split(): the maximal runs of non-whitespace characters
SplitWords(s) ==
    LET t == LStrip(s)
        e == Least({k \in 0..Len(t) : k = Len(t) \/ IsSpace(At(t, k))})
    IN  IF t = <<>> THEN <<>>
        ELSE <<Slice(t, 0, e)>> \o SplitWords(Slice(t, e, Len(t)))

RECURSIVE Join(_)
\* ' '.join(words)
Join(words) ==
    IF words = <<>> THEN <<>>
    ELSE IF Len(words) = 1 THEN words[1]
    ELSE words[1] \o <<" ">> \o Join(Tail(words))

\* the request-type subject, lines 704-714 ('' when the label does not occur)
SubjectFromRequestType(text) ==
    IF Contains(LblRequestType, text)
    THEN LET start == Find(text, LblRequestType, 0) + Len(LblRequestType)
             e1 == Find(text, TermPriority, start)
             e2 == Find(text, TermSubrequest, start)
             end == IF e1 # -1 THEN e1
                    ELSE IF e2 # -1 THEN e2
                    ELSE start + SubjectWindow
         IN  TrimValue(Slice(text, start, end))
    ELSE <<>>

\* the subrequest-type subject, lines 717-725 ('' when the label does not occur)
SubjectFromSubrequestType(text) ==
    IF Contains(LblSubrequestType, text)
    THEN LET start == Find(text, LblSubrequestType, 0) + Len(LblSubrequestType)
             e1 == Find(text, TermPriority, start)
             end == IF e1 # -1 THEN e1 ELSE start + SubrequestWindow
         IN  TrimValue(Slice(text, start, end))
    ELSE <<>>

\* the first-line fallback, lines 728-731
SubjectFromFirstLine(text) ==
    LET first_line == Strip(SplitOn(text, "\n")[1])
    IN  IF Len(first_line) > FirstLineLimit
        THEN Slice(first_line, 0, FirstLineLimit) \o Ellipsis
        ELSE IF first_line # <<>> THEN first_line ELSE NoSubject

\* _extract_subject(text)
_extract_subject(text) ==
    IF SubjectFromRequestType(text) # <<>> THEN SubjectFromRequestType(text)
    ELSE IF SubjectFromSubrequestType(text) # <<>> THEN SubjectFromSubrequestType(text)
    ELSE SubjectFromFirstLine(text)

\* the end of a summary or description value: the terminators are looked
\* up one after the other, lines 738-744 and 757-763
FieldEnd(text, start, window) ==
    LET e1 == Find(text, TermApplication, start)
        e2 == Find(text, TermAlias, start)
        e3 == Find(text, TermDivision, start)
    IN  IF e1 # -1 THEN e1
        ELSE IF e2 # -1 THEN e2
        ELSE IF e3 # -1 THEN e3
        ELSE start + window

\* _extract_summary(text)
_extract_summary(text) ==
    IF Contains(LblSummary, text)
    THEN LET start == Find(text, LblSummary, 0) + Len(LblSummary)
         IN  TrimValue(Slice(text, start, FieldEnd(text, start, SummaryWindow)))
    ELSE <<>>

\* the description field alone, lines 755-767
DescriptionField(text) ==
    IF Contains(LblDescription, text)
    THEN LET start == Find(text, LblDescription, 0) + Len(LblDescription)
         IN  TrimValue(Slice(text, start, FieldEnd(text, start, DescriptionWindow)))
    ELSE <<>>

\* _extract_description(text)
_extract_description(text) ==
    IF DescriptionField(text) # <<>> THEN DescriptionField(text)
    ELSE _extract_summary(text)

\* the group of <@([A-Z0-9]+)> when it matches at position i, else ''
MentionAt(text, i, suffix) ==
    LET start == i + Len(MentionOpen)
        end == RunEnd(text, start, UpperLetters \cup Digits)
    IN  IF /\ Slice(text, i, start) = MentionOpen
           /\ end > start
           /\ Slice(text, end, end + Len(suffix)) = suffix
        THEN Slice(text, start, end)
        ELSE <<>>

RECURSIVE SearchNewRequest(_, _)
\* re.search(r'New request from <@([A-Z0-9]+)> via', text): group 1 of the
\* leftmost match at or after position i, else ''
SearchNewRequest(text, i) ==
    LET at == Find(text, PrefixNewRequest, i)
        id == MentionAt(text, at + Len(PrefixNewRequest) - Len(MentionOpen), SuffixVia)
    IN  IF at = -1 THEN <<>>
        ELSE IF id # <<>> THEN id
        ELSE SearchNewRequest(text, at + 1)

RECURSIVE FirstMention(_, _)
\* re.findall(r'<@([A-Z0-9]+)>', text)[0], else ''
FirstMention(text, i) ==
    LET at == Find(text, MentionOpen, i)
        id == MentionAt(text, at, <<">">>)
    IN  IF at = -1 THEN <<>>
        ELSE IF id # <<>> THEN id
        ELSE FirstMention(text, at + 1)

\* _extract_actual_user(text)
_extract_actual_user(text) ==
    IF SearchNewRequest(text, 0) # <<>> THEN SearchNewRequest(text, 0)
    ELSE FirstMention(text, 0)

\* the preview with the words after the second line left out
PreviewWithoutThirdLine(description_text) ==
    LET description_words == SplitWords(description_text)
        total_words == Len(description_words)
        half == total_words \div 2
        words_per_line == IF half > 1 THEN half ELSE 1
        parts == <<Slice(description_words, 0, words_per_line),
                   Slice(description_words, words_per_line, 2 * words_per_line)>>
        kept == SelectSeq(parts, LAMBDA ws : ws # <<>>)
    IN  [k \in 1..Len(kept) |-> Join(kept[k])]

\* the preview built from a description, lines 405-431
PreviewFromDescription(description_text) ==
    LET description_words == SplitWords(description_text)
        total_words == Len(description_words)
        half == total_words \div 2
        words_per_line == IF half > 1 THEN half ELSE 1
        line1_words == Slice(description_words, 0, words_per_line)
        line2_words == Slice(description_words, words_per_line, total_words)
        parts == IF Len(Join(line2_words)) > PreviewLineLimit
                 THEN <<line1_words,
                        Slice(description_words, words_per_line, 2 * words_per_line),
                        Slice(description_words, 2 * words_per_line, total_words)>>
                 ELSE <<line1_words, line2_words>>
        kept == SelectSeq(parts, LAMBDA ws : ws # <<>>)
    IN  [k \in 1..Len(kept) |-> Join(kept[k])]

\* the preview built from the text itself, lines 434-445
PreviewFromText(text) ==
    LET lines == SplitOn(text, "\n")
        first2 == Slice(lines, 0, 2)
        stripped == [k \in 1..Len(first2) |-> Strip(first2[k])]
        kept == SelectSeq(stripped, LAMBDA line : line # <<>>)
    IN  [k \in 1..Len(kept) |->
            IF Len(kept[k]) > PreviewLineLimit
            THEN Slice(kept[k], 0, PreviewLineLimit) \o Ellipsis
            ELSE kept[k]]

\* preview_lines for the text of a message line, lines 400-445
PreviewLines(text) ==
    LET fromDescription ==
            IF _extract_description(text) # <<>>
            THEN PreviewFromDescription(_extract_description(text))
            ELSE <<>>
    IN  IF fromDescription # <<>> THEN fromDescription ELSE PreviewFromText(text)

(***************************************************************************)
(* Timestamps, days, ordering and counting                                 *)
(***************************************************************************)
DigitValue ==
    "0" :> 0 @@ "1" :> 1 @@ "2" :> 2 @@ "3" :> 3 @@ "4" :> 4 @@
    "5" :> 5 @@ "6" :> 6 @@ "7" :> 7 @@ "8" :> 8 @@ "9" :> 9

DigitChar == <<"0", "1", "2", "3", "4", "5", "6", "7", "8", "9">>

RECURSIVE DecimalValue(_)
\* the number a string of digits denotes
DecimalValue(ds) ==
    IF ds = <<>> THEN 0
    ELSE 10 * DecimalValue(SubSeq(ds, 1, Len(ds) - 1)) + DigitValue[ds[Len(ds)]]

\* whether float(s) returns: digits with at most one point and at least one
\* digit, white space around them allowed (no message of the model carries a
\* sign, an exponent, inf or nan)
FloatParses(s) ==
    LET t == Strip(s)
        dot == Find(t, <<".">>, 0)
        whole == IF dot = -1 THEN t ELSE Slice(t, 0, dot)
        frac == IF dot = -1 THEN <<>> ELSE Slice(t, dot + 1, Len(t))
    IN  /\ \A k \in 1..Len(whole) : whole[k] \in Digits
        /\ \A k \in 1..Len(frac) : frac[k] \in Digits
        /\ Len(whole) + Len(frac) > 0

\* float(s) in tenths of a second (the timestamps of the model have at most
\* one digit after the point)
FloatTenths(s) ==
    LET t == Strip(s)
        dot == Find(t, <<".">>, 0)
        whole == IF dot = -1 THEN t ELSE Slice(t, 0, dot)
        frac == IF dot = -1 THEN <<>> ELSE Slice(t, dot + 1, Len(t))
    IN  10 * DecimalValue(whole) + (IF frac = <<>> THEN 0 ELSE DigitValue[frac[1]])

SecondsPerDay == 86400

\* %d and %m of strftime: two digits, zero-padded
TwoDigits(n) == <<DigitChar[(n \div 10) + 1], DigitChar[(n % 10) + 1]>>

\* datetime.fromtimestamp(float(timestamp)).strftime('%Y-%m-%d'), for the
\* timestamps of January 1970 (the 31 days from the epoch on)
DayKey(timestamp) ==
    <<"1", "9", "7", "0", "-", "0", "1", "-">>
        \o TwoDigits((FloatTenths(timestamp) \div (10 * SecondsPerDay)) + 1)

\* the code point order of the characters of a day key
CharOrder == ("-" :> 0) @@ [c \in Digits |-> DigitValue[c] + 1]

RECURSIVE StrLess(_, _)
\* a < b for two str
StrLess(a, b) ==
    IF b = <<>> THEN FALSE
    ELSE IF a = <<>> THEN TRUE
    ELSE IF Head(a) = Head(b) THEN StrLess(Tail(a), Tail(b))
    ELSE CharOrder[Head(a)] < CharOrder[Head(b)]

RECURSIVE InsertStable(_, _, _)
\* index i put into the sorted index list q behind every index whose key is
\* not greater (the order list.sort and sorted keep among equal keys)
InsertStable(q, i, key) ==
    IF q = <<>> THEN <<i>>
    ELSE IF key[Head(q)] <= key[i] THEN <<Head(q)>> \o InsertStable(Tail(q), i, key)
    ELSE <<i>> \o q

RECURSIVE InsertBeforeEqual(_, _, _)
\* index i put into the sorted index list q in front of the indexes of equal key
InsertBeforeEqual(q, i, key) ==
    IF q = <<>> THEN <<i>>
    ELSE IF key[Head(q)] < key[i] THEN <<Head(q)>> \o InsertBeforeEqual(Tail(q), i, key)
    ELSE <<i>> \o q

RECURSIVE SortUnstable(_, _)
\* a sort by ascending key that reverses the elements of equal key
SortUnstable(key, n) ==
    IF n = 0 THEN <<>> ELSE InsertBeforeEqual(SortUnstable(key, n - 1), n, key)

RECURSIVE SortStable(_, _)
\* the indexes 1..n in the order of a stable sort by ascending key
SortStable(key, n) ==
    IF n = 0 THEN <<>> ELSE InsertStable(SortStable(key, n - 1), n, key)

RECURSIVE SortDays(_)
\* sorted(daily_messages.keys(), reverse=True), line 369
SortDays(keys) ==
    IF keys = {} THEN <<>>
    ELSE LET top == CHOOSE k \in keys : \A other \in keys : ~StrLess(k, other)
         IN  <<top>> \o SortDays(keys \ {top})

RECURSIVE CounterOfDistinct(_)
\* a tally that counts each label once, however often it occurs
CounterOfDistinct(labels) ==
    IF labels = <<>> THEN <<>>
    ELSE LET c == CounterOfDistinct(SubSeq(labels, 1, Len(labels) - 1))
             x == labels[Len(labels)]
         IN  IF \E k \in 1..Len(c) : c[k][1] = x THEN c ELSE Append(c, <<x, 1>>)

RECURSIVE Counter(_)
\* Counter(labels): the pairs <<label, count>> in the order the labels are
\* first seen
Counter(labels) ==
    IF labels = <<>> THEN <<>>
    ELSE LET init == SubSeq(labels, 1, Len(labels) - 1)
             x == labels[Len(labels)]
             c == Counter(init)
         IN  IF \E k \in 1..Len(c) : c[k][1] = x
             THEN [k \in 1..Len(c) |-> IF c[k][1] = x THEN <<x, c[k][2] + 1>> ELSE c[k]]
             ELSE Append(c, <<x, 1>>)

\* Counter.most_common(): by descending count, equal counts in first-seen order
MostCommon(counter) ==
    LET order == SortStable([k \in 1..Len(counter) |-> 0 - counter[k][2]], Len(counter))
    IN  [k \in 1..Len(counter) |-> counter[order[k]]]

(***************************************************************************)
(* Messages given to the classifier                                        *)
(***************************************************************************)
MaxFrags == 3
MaxReactions == 3
MaxCount == 2

\* ['Urgent ', 'BLOCKING', 'slow', 'nice to have', 'ok ', 'minor']
SeverityFragments ==
    << <<"U", "r", "g", "e", "n", "t", " ">>,
       <<"B", "L", "O", "C", "K", "I", "N", "G">>,
       <<"s", "l", "o", "w">>,
       <<"n", "i", "c", "e", " ", "t", "o", " ", "h", "a", "v", "e">>,
       <<"o", "k", " ">>,
       <<"m", "i", "n", "o", "r">> >>

\* ['Request Type:', '*Priority:*', '*Subrequest Type:*', ' Nucleus ', 'Trust View', 'trust dashboard', 'search', 'staging', '*']
WorkflowFragments ==
    << <<"R", "e", "q", "u", "e", "s", "t", " ", "T", "y", "p", "e", ":">>,
       <<"*", "P", "r", "i", "o", "r", "i", "t", "y", ":", "*">>,
       <<"*", "S", "u", "b", "r", "e", "q", "u", "e", "s", "t", " ", "T", "y", "p", "e", ":", "*">>,
       <<" ", "N", "u", "c", "l", "e", "u", "s", " ">>,
       <<"T", "r", "u", "s", "t", " ", "V", "i", "e", "w">>,
       <<"t", "r", "u", "s", "t", " ", "d", "a", "s", "h", "b", "o", "a", "r", "d">>,
       <<"s", "e", "a", "r", "c", "h">>,
       <<"s", "t", "a", "g", "i", "n", "g">>,
       <<"*">> >>

\* ['PROJ-1', 'proj-4', 'AB-2', ' ', 'x', '3']
JiraFragments ==
    << <<"P", "R", "O", "J", "-", "1">>,
       <<"p", "r", "o", "j", "-", "4">>,
       <<"A", "B", "-", "2">>,
       <<" ">>,
       <<"x">>,
       <<"3">> >>

RECURSIVE Concats(_, _)
\* the texts made of at most n fragments
Concats(frags, n) ==
    IF n = 0 THEN {<<>>}
    ELSE LET shorter == Concats(frags, n - 1)
         IN  shorter \cup {t \o frags[k] : t \in shorter, k \in 1..Len(frags)}

\* '*Request Type:* Nucleus *Priority:* High *Description:* dashboard is down for all users'
Scenario1Text ==
    <<"*", "R", "e", "q", "u", "e", "s", "t", " ", "T", "y", "p", "e", ":", "*", " ", "N", "u", "c", "l", "e", "u", "s", " ", "*", "P", "r", "i", "o", "r", "i", "t", "y", ":", "*", " ", "H", "i", "g", "h", " ", "*", "D", "e", "s", "c", "r", "i", "p", "t", "i", "o", "n", ":", "*", " ", "d", "a", "s", "h", "b", "o", "a", "r", "d", " ", "i", "s", " ", "d", "o", "w", "n", " ", "f", "o", "r", " ", "a", "l", "l", " ", "u", "s", "e", "r", "s">>
\* 'this is urgent, nucleus dashboard broken'
Scenario2Text ==
    <<"t", "h", "i", "s", " ", "i", "s", " ", "u", "r", "g", "e", "n", "t", ",", " ", "n", "u", "c", "l", "e", "u", "s", " ", "d", "a", "s", "h", "b", "o", "a", "r", "d", " ", "b", "r", "o", "k", "e", "n">>
\* 'PROJ-123 and proj-45 and PROJ-123'
Scenario5Text ==
    <<"P", "R", "O", "J", "-", "1", "2", "3", " ", "a", "n", "d", " ", "p", "r", "o", "j", "-", "4", "5", " ", "a", "n", "d", " ", "P", "R", "O", "J", "-", "1", "2", "3">>
\* '*Request Type:* *Priority:* High nucleus dashboard'
EmptyFieldText ==
    <<"*", "R", "e", "q", "u", "e", "s", "t", " ", "T", "y", "p", "e", ":", "*", " ", "*", "P", "r", "i", "o", "r", "i", "t", "y", ":", "*", " ", "H", "i", "g", "h", " ", "n", "u", "c", "l", "e", "u", "s", " ", "d", "a", "s", "h", "b", "o", "a", "r", "d">>

\* texts given in full: the documented scenarios, and a request
\* form whose request-type field was left empty
ScenarioTexts == {Scenario1Text, Scenario2Text, Scenario5Text, EmptyFieldText}

Texts ==
    Concats(SeverityFragments, MaxFrags)
        \cup Concats(WorkflowFragments, MaxFrags)
        \cup Concats(JiraFragments, MaxFrags)
        \cup ScenarioTexts

RECURSIVE SeqsUpTo(_, _)
\* the sequences over S of length at most n
SeqsUpTo(S, n) ==
    IF n = 0 THEN {<<>>}
    ELSE LET shorter == SeqsUpTo(S, n - 1)
         IN  shorter \cup {Append(q, x) : q \in shorter, x \in S}

\* a reaction record of the Slack API: the emoji and how many users added it
Reactions == [name : {"eyes"}, count : 1..MaxCount]

\* MessageData.reactions: None, or a list of reaction records
ReactionLists == {None} \cup {Some(q) : q \in SeqsUpTo(Reactions, MaxReactions)}

\* MessageData.thread_ts: None, or the timestamp of the thread root
Threads == {None, Some(<<"1", "0", "0">>)}

\* MessageData(user, text, timestamp, thread_ts, reactions, attachments)
MessageData(user, text, timestamp, thread_ts, reactions) ==
    [user |-> user, text |-> text, timestamp |-> timestamp,
     thread_ts |-> thread_ts, reactions |-> reactions, attachments |-> <<>>]

EngagementTexts == {SeverityFragments[1], WorkflowFragments[4]}

ClassifyInputs ==
    {MessageData(<<"U", "1">>, t, <<"1", "0", "0">>, None, None) : t \in Texts}
        \cup {MessageData(<<"U", "1">>, t, <<"1", "0", "0">>, th, r) :
                t \in EngagementTexts, th \in Threads, r \in ReactionLists}

\* messages classified between two classifications of the studied one
OtherMessages ==
    {MessageData(<<"U", "2">>, SeverityFragments[1] \o SeverityFragments[3],
                 <<"2", "0", "0">>, None, Some(<<>>))}

(***************************************************************************)
(* Messages given to the digest                                            *)
(***************************************************************************)
MaxMsgs == 3

\* 'New request from <@U2> via <@B1>\n*Request Type:* Nucleus *Priority:* High\n*Description:* dash down AB-2 PROJ-1'
PoolText1 ==
    <<"N", "e", "w", " ", "r", "e", "q", "u", "e", "s", "t", " ", "f", "r", "o", "m", " ", "<", "@", "U", "2", ">", " ", "v", "i", "a", " ", "<", "@", "B", "1", ">", "\n", "*", "R", "e", "q", "u", "e", "s", "t", " ", "T", "y", "p", "e", ":", "*", " ", "N", "u", "c", "l", "e", "u", "s", " ", "*", "P", "r", "i", "o", "r", "i", "t", "y", ":", "*", " ", "H", "i", "g", "h", "\n", "*", "D", "e", "s", "c", "r", "i", "p", "t", "i", "o", "n", ":", "*", " ", "d", "a", "s", "h", " ", "d", "o", "w", "n", " ", "A", "B", "-", "2", " ", "P", "R", "O", "J", "-", "1">>
\* '*Request Type:* Trust View *Priority:* Low *Summary:* urgent fix'
PoolText2 ==
    <<"*", "R", "e", "q", "u", "e", "s", "t", " ", "T", "y", "p", "e", ":", "*", " ", "T", "r", "u", "s", "t", " ", "V", "i", "e", "w", " ", "*", "P", "r", "i", "o", "r", "i", "t", "y", ":", "*", " ", "L", "o", "w", " ", "*", "S", "u", "m", "m", "a", "r", "y", ":", "*", " ", "u", "r", "g", "e", "n", "t", " ", "f", "i", "x">>
\* 'how is nucleus staging?'
PoolText3 ==
    <<"h", "o", "w", " ", "i", "s", " ", "n", "u", "c", "l", "e", "u", "s", " ", "s", "t", "a", "g", "i", "n", "g", "?">>
\* 'Request Type: Nucleus'
PoolText4 ==
    <<"R", "e", "q", "u", "e", "s", "t", " ", "T", "y", "p", "e", ":", " ", "N", "u", "c", "l", "e", "u", "s">>
\* 'nucleus-requests'
ChannelName ==
    <<"n", "u", "c", "l", "e", "u", "s", "-", "r", "e", "q", "u", "e", "s", "t", "s">>
\* 'C123'
ChannelId ==
    <<"C", "1", "2", "3">>

\* the messages a digest is built from
Pool ==
    {MessageData(<<"U", "1">>, PoolText1, <<"1", "0", "0">>, None, None),
     MessageData(<<"U", "1">>, PoolText2, <<"1", "0", "0", ".", "0">>,
                 Some(<<"9", "0">>), Some(<<[name |-> "eyes", count |-> 2]>>)),
     MessageData(<<"U", "2">>, PoolText3, <<"8", "6", "5", "0", "0">>, None, Some(<<>>)),
     MessageData(<<"U", "3">>, PoolText4, <<"7", "7", "7", "7", "0", "0">>, None,
                 Some(<<[name |-> "eyes", count |-> 1]>>))}

(***************************************************************************)
(* Messages of conversations.history                                       *)
(***************************************************************************)
MaxHistory == 2

\* 'deploy finished'
HistoryText4 ==
    <<"d", "e", "p", "l", "o", "y", " ", "f", "i", "n", "i", "s", "h", "e", "d">>
\* 'Request Type: export of the weekly usage report fails again on nucleus'
HistoryText7 ==
    <<"R", "e", "q", "u", "e", "s", "t", " ", "T", "y", "p", "e", ":", " ", "e", "x", "p", "o", "r", "t", " ", "o", "f", " ", "t", "h", "e", " ", "w", "e", "e", "k", "l", "y", " ", "u", "s", "a", "g", "e", " ", "r", "e", "p", "o", "r", "t", " ", "f", "a", "i", "l", "s", " ", "a", "g", "a", "i", "n", " ", "o", "n", " ", "n", "u", "c", "l", "e", "u", "s">>

\* a message dict of response['messages']; a key the dict lacks is None
RawMessage(type, bot_id, user, text, ts, thread_ts, reactions) ==
    [type |-> type, bot_id |-> bot_id, user |-> user, text |-> text, ts |-> ts,
     thread_ts |-> thread_ts, reactions |-> reactions]

\* the message dicts a response is made of
HistoryPool ==
    {RawMessage(Some("message"), Some(<<"B", "1">>), Some(<<"U", "1">>), Some(PoolText1),
                Some(<<"1", "0", "0">>), None, None),
     RawMessage(Some("message"), None, Some(<<"U", "2">>), Some(PoolText2),
                Some(<<"8", "6", "5", "0", "0">>), Some(<<"9", "0">>),
                Some(<<[name |-> "eyes", count |-> 2]>>)),
     RawMessage(Some("message"), None, Some(<<"U", "2">>), Some(PoolText3),
                Some(<<"2", "0", "0">>), None, None),
     RawMessage(Some("message"), Some(<<"B", "1">>), None, Some(HistoryText4),
                Some(<<"3", "0", "0">>), None, None),
     RawMessage(None, None, Some(<<"U", "1">>), Some(PoolText4),
                Some(<<"4", "0", "0">>), None, None),
     RawMessage(Some("message"), None, Some(<<"U", "3">>), Some(PoolText4),
                None, None, None),
     RawMessage(Some("message"), None, Some(<<"U", "1">>), Some(HistoryText7),
                Some(<<"7", "7", "7", "7", "0", "0">>), None, None)}

\* conversations.history: SlackApiError, or a response with its messages
HistoryResponses ==
    {[error |-> TRUE, messages |-> <<>>]}
        \cup {[error |-> FALSE, messages |-> q] : q \in SeqsUpTo(HistoryPool, MaxHistory)}

\* d.get(key, default) for a key whose value is the Optional o
Get(o, default) == IF o = None THEN default ELSE o[1]

\* 'Unknown'
DefaultUser ==
    <<"U", "n", "k", "n", "o", "w", "n">>

\* the MessageData built at lines 201-208
ToMessageData(msg) ==
    [user |-> Get(msg.user, DefaultUser), text |-> Get(msg.text, <<>>),
     timestamp |-> Get(msg.ts, <<>>), thread_ts |-> msg.thread_ts,
     reactions |-> Some(Get(msg.reactions, <<>>)), attachments |-> <<>>]

\* every MessageData a digest is built from
DigestMessages == Pool \cup {ToMessageData(msg) : msg \in HistoryPool}

\* datetime.now() as a day number
Nows == {10, 11}

\* the function with the pairs <<x, y>> of a table as its graph
Lookup(table, x) == (CHOOSE pair \in table : pair[1] = x)[2]

\* what the loops of generate_final_digest_content compute from one message
\* alone: float(timestamp) and the day key of lines 325-326, and the fields
\* of lines 380-452 the message line and its preview are made of
MessageFacts(m) ==
    LET text == Strip(ReplaceChar(m.text, "\n", " "))
    IN  [parses |-> FloatParses(m.timestamp),
         tenths |-> IF FloatParses(m.timestamp) THEN FloatTenths(m.timestamp) ELSE 0,
         day |-> IF FloatParses(m.timestamp) THEN DayKey(m.timestamp) ELSE <<>>,
         actual_user |-> _extract_actual_user(text),
         subject |-> _extract_subject(text),
         preview_lines |-> PreviewLines(text)]

\* MessageFacts of the messages, tabulated
FactsTable == {<<m, MessageFacts(m)>> : m \in DigestMessages}

\* the facts of the messages of a list, in the order of the list
FactsOf(messages) == [k \in 1..Len(messages) |-> Lookup(FactsTable, messages[k])]

\* categorize_message of the messages, tabulated
CategoryTable == {<<m, categorize_message(m)>> : m \in DigestMessages}

CategoryFacts(m) == Lookup(CategoryTable, m)

\* messages.sort(key=lambda x: float(x.timestamp)), line 314: the positions
\* of the list in their order after the sort, facts being those of the list
SortedPositions(facts) ==
    SortStable([i \in 1..Len(facts) |-> facts[i].tenths], Len(facts))

\* a list in the order of the given positions
Reorder(q, order) == [k \in 1..Len(order) |-> q[order[k]]]

(***************************************************************************)
(* get_user_info                                                           *)
(***************************************************************************)
UserIds == {<<"U", "1">>, <<"U", "2">>}

\* response['user'] of users.info; a key the response lacks is None
UserProfile ==
    (<<"U", "1">> :> [real_name |-> Some("Alice Doe"), display_name |-> Some("alice"),
                      name |-> Some("adoe")])
    @@ (<<"U", "2">> :> [real_name |-> None, display_name |-> Some("bob"),
                         name |-> Some("bsmith")])

\* user.get('real_name', user.get('display_name', user.get('name', 'Unknown')))
DisplayName(user) ==
    IF user.real_name # None THEN user.real_name[1]
    ELSE IF user.display_name # None THEN user.display_name[1]
    ELSE IF user.name # None THEN user.name[1]
    ELSE "Unknown"

\* get_user_info with the failure cached under another name than the one returned
GetUserInfoCachesOther(cache, fails, user_id) ==
    IF user_id \in DOMAIN cache
    THEN [name |-> cache[user_id], cache |-> cache, calls |-> <<>>]
    ELSE IF user_id \in fails \/ user_id \notin UserIds
    THEN [name |-> "Unknown User", cache |-> cache @@ (user_id :> "Unknown"),
          calls |-> <<user_id>>]
    ELSE [name |-> DisplayName(UserProfile[user_id]),
          cache |-> cache @@ (user_id :> DisplayName(UserProfile[user_id])),
          calls |-> <<user_id>>]

\* get_user_info with the failure of a lookup left out of users_cache
GetUserInfoForgetsFailure(cache, fails, user_id) ==
    IF user_id \in DOMAIN cache
    THEN [name |-> cache[user_id], cache |-> cache, calls |-> <<>>]
    ELSE IF user_id \in fails \/ user_id \notin UserIds
    THEN [name |-> "Unknown User", cache |-> cache, calls |-> <<user_id>>]
    ELSE [name |-> DisplayName(UserProfile[user_id]),
          cache |-> cache @@ (user_id :> DisplayName(UserProfile[user_id])),
          calls |-> <<user_id>>]

\* get_user_info(user_id) on users_cache = cache, where users.info raises
\* SlackApiError for the ids of fails and for the ids Slack does not know:
\* the name returned, users_cache afterwards, and the ids users.info was
\* called for (line 71)
GetUserInfo(cache, fails, user_id) ==
    IF user_id \in DOMAIN cache
    THEN [name |-> cache[user_id], cache |-> cache, calls |-> <<>>]
    ELSE IF user_id \in fails \/ user_id \notin UserIds
    THEN [name |-> "Unknown User", cache |-> cache @@ (user_id :> "Unknown User"),
          calls |-> <<user_id>>]
    ELSE [name |-> DisplayName(UserProfile[user_id]),
          cache |-> cache @@ (user_id :> DisplayName(UserProfile[user_id])),
          calls |-> <<user_id>>]

(***************************************************************************)
(* generate_final_digest_content                                           *)
(***************************************************************************)
DaysBack == 7

\* the status marker of a message line, lines 387-395
StatusText(confidence) ==
    IF confidence >= 8 THEN "RESOLVED"
    ELSE IF confidence >= 6 THEN "LIKELY"
    ELSE "NEEDS_ATTENTION"

\* the count of the categories from low up to and including high
CountThrough(cats, low, high) ==
    Cardinality({k \in 1..Len(cats) : /\ cats[k].resolution_confidence >= low
                                      /\ cats[k].resolution_confidence <= high})

\* how many categories have a resolution_confidence (in tenths) from low up to
\* but not including high, lines 341-343
Count(cats, low, high) ==
    Cardinality({k \in 1..Len(cats) : /\ cats[k].resolution_confidence >= low
                                      /\ cats[k].resolution_confidence < high})

\* the message line and its preview lines, lines 376-457, and users_cache
\* after the two get_user_info calls of the loop body
RenderMessage(cache, fails, i, msg, facts, cat) ==
    LET first == GetUserInfo(cache, fails, msg.user)
        second == GetUserInfo(first.cache, fails,
                              IF facts.actual_user # <<>> THEN facts.actual_user
                              ELSE msg.user)
    IN  [lines |-> << <<"msg", i, second.name, facts.subject, cat.severity,
                        StatusText(cat.resolution_confidence)>> >>
                   \o [k \in 1..Len(facts.preview_lines) |->
                          <<"preview", facts.preview_lines[k]>>],
         cache |-> second.cache,
         calls |-> first.calls \o second.calls]

RECURSIVE RenderDay(_, _, _, _, _, _, _)
\* the message lines of one day from its i-th message on, lines 375-457;
\* members are the positions of the day's messages in the sorted list
RenderDay(cache, fails, members, i, sorted, facts, cats) ==
    IF i > Len(members) THEN [lines |-> <<>>, cache |-> cache, calls |-> <<>>]
    ELSE LET one == RenderMessage(cache, fails, i, sorted[members[i]],
                                  facts[members[i]], cats[members[i]])
             rest == RenderDay(one.cache, fails, members, i + 1, sorted, facts, cats)
         IN  [lines |-> one.lines \o rest.lines, cache |-> rest.cache,
              calls |-> one.calls \o rest.calls]

RECURSIVE RenderDays(_, _, _, _, _, _)
\* the day sections, lines 369-457: their lines, users_cache afterwards, and
\* for each section the positions in the sorted list of the messages it
\* lists, in the order listed
RenderDays(cache, fails, days, sorted, facts, cats) ==
    IF days = <<>>
    THEN [lines |-> <<>>, cache |-> cache, sections |-> <<>>, calls |-> <<>>]
    ELSE LET members == SelectSeq([k \in 1..Len(sorted) |-> k],
                                  LAMBDA k : facts[k].day = Head(days))
             day == RenderDay(cache, fails, members, 1, sorted, facts, cats)
             rest == RenderDays(day.cache, fails, Tail(days), sorted, facts, cats)
         IN  [lines |-> << <<"day", Head(days), Len(members)>> >> \o day.lines \o rest.lines,
              cache |-> rest.cache,
              calls |-> day.calls \o rest.calls,
              sections |-> <<[day |-> Head(days), members |-> members]>> \o rest.sections]

\* the text of the ValueError float() raises, before the repr of its argument:
\* 'could not convert string to float: '
FloatErrorPrefix ==
    <<"c", "o", "u", "l", "d", " ", "n", "o", "t", " ", "c", "o", "n", "v", "e", "r", "t", " ", "s", "t", "r", "i", "n", "g", " ", "t", "o", " ", "f", "l", "o", "a", "t", ":", " ">>

\* str(e) of the ValueError float(s) raises for a string s without a quote
FloatError(s) == FloatErrorPrefix \o <<"'">> \o s \o <<"'">>

\* the exception the sort of line 314 raises: that of the first message of
\* the list whose timestamp float() rejects (the keys are computed in list
\* order before any comparison)
SortError(messages, given_facts) ==
    LET bad == Least({i \in 1..Len(messages) : ~given_facts[i].parses})
    IN  FloatError(messages[bad].timestamp)

RECURSIVE Tally(_, _)
\* the call counts after users.info was called for the ids of calls
Tally(counts, calls) ==
    IF calls = <<>> THEN counts
    ELSE Tally(IF Head(calls) \in DOMAIN counts
               THEN [counts EXCEPT ![Head(calls)] = @ + 1]
               ELSE counts @@ (Head(calls) :> 1),
               Tail(calls))

\* the three counts of lines 341-343 before any message is counted
NoTiers == [high_confidence_resolved |-> 0, likely_resolved |-> 0, needs_attention |-> 0]

\* the sentinel document of line 311
NoMessagesText == << <<"no_messages">> >>

\* generate_final_digest_content(channel_info, messages, days_back) called on
\* users_cache = cache with datetime.now() = now (a day number), given the
\* MessageFacts of the messages and, as cats, the dicts categorize_message
\* returns for the sorted messages.  The result:
\* how the call ends, the lines of the text returned, the list messages and
\* users_cache after the call, and for each day section the positions its
\* messages had in the list given
Digest(cache, fails, channel_info, messages, days_back, now, given_facts, cats) ==
    IF messages = <<>>
    THEN [kind |-> "text", lines |-> NoMessagesText, messages |-> messages,
          cache |-> cache, sections |-> <<>>, error |-> <<>>, calls |-> <<>>,
          tiers |-> NoTiers]
    ELSE IF \E i \in 1..Len(messages) : ~given_facts[i].parses
    THEN [kind |-> "ValueError", lines |-> <<>>, messages |-> messages,
          cache |-> cache, sections |-> <<>>, calls |-> <<>>,
          error |-> SortError(messages, given_facts), tiers |-> NoTiers]
    ELSE
    LET order == SortedPositions(given_facts)
        n == Len(messages)
        sorted == Reorder(messages, order)
        facts == Reorder(given_facts, order)
        days == SortDays({given_facts[k].day : k \in 1..n})
        total_messages == n
        workflow_counts == Counter([k \in 1..n |-> cats[k].workflow])
        severity_counts == Counter([k \in 1..n |-> cats[k].severity])
        high_confidence_resolved == Count(cats, 8, 11)
        likely_resolved ==
            Count(cats, 6, 8)
        needs_attention == Count(cats, 0, 6)
        resolved_count == high_confidence_resolved + likely_resolved
        workflows == MostCommon(workflow_counts)
        severities == MostCommon(severity_counts)
        daily == RenderDays(cache, fails, days, sorted, facts, cats)
    IN  [kind |-> "text",
         lines |->
            << <<"title">>,
               <<"channel", channel_info.name, now - days_back, now>>,
               <<"total", total_messages>>,
               <<"blank">>,
               <<"workflow_header">> >>
            \o [k \in 1..Len(workflows) |-> <<"workflow", workflows[k][1], workflows[k][2]>>]
            \o << <<"blank">>,
                  <<"resolution", total_messages, resolved_count, needs_attention>>,
                  <<"blank">>,
                  <<"daily_header">> >>
            \o daily.lines
            \o << <<"blank">>, <<"severity_header">> >>
            \o [k \in 1..Len(severities) |-> <<"severity", severities[k][1], severities[k][2]>>]
            \o << <<"blank">>, <<"legends_header">>, <<"legend_severity">>,
                  <<"legend_resolution">>, <<"legend_thread">>, <<"blank">>,
                  <<"footer_generated">>, <<"footer_filter">> >>,
         messages |-> sorted,
         cache |-> daily.cache,
         calls |-> daily.calls,
         error |-> <<>>,
         tiers |-> [high_confidence_resolved |-> high_confidence_resolved,
                    likely_resolved |-> likely_resolved,
                    needs_attention |-> needs_attention],
         sections |->
            [d \in 1..Len(daily.sections) |->
                [day |-> daily.sections[d].day,
                 positions |-> [k \in 1..Len(daily.sections[d].members) |->
                                   order[daily.sections[d].members[k]]]]]]

RECURSIVE CategorizeAll(_)
\* categorized_messages, lines 317-320: the lists of dicts the loop can build
CategorizeAll(messages) ==
    IF messages = <<>> THEN {<<>>}
    ELSE {<<c>> \o rest : c \in CategoryFacts(Head(messages)),
                          rest \in CategorizeAll(Tail(messages))}

(***************************************************************************)
(* get_channel_info, get_channel_messages                                  *)
(***************************************************************************)
\* get_channel_info(channel_id): the name, lines 121-134
get_channel_info(channel_id, info_ok) ==
    [name |-> IF info_ok THEN ChannelName ELSE channel_id]

\* 'new request from'
KwNewRequestFrom ==
    <<"n", "e", "w", " ", "r", "e", "q", "u", "e", "s", "t", " ", "f", "r", "o", "m">>
\* 'request type'
KwRequestType ==
    <<"r", "e", "q", "u", "e", "s", "t", " ", "t", "y", "p", "e">>
\* 'priority'
KwPriority ==
    <<"p", "r", "i", "o", "r", "i", "t", "y">>
\* 'summary'
KwSummary ==
    <<"s", "u", "m", "m", "a", "r", "y">>
\* 'description'
KwDescription ==
    <<"d", "e", "s", "c", "r", "i", "p", "t", "i", "o", "n">>

\* the keywords of lines 153-155
WorkflowRequestKeywords ==
    <<KwNewRequestFrom, KwRequestType, KwPriority, KwSummary, KwDescription>>

\* 'nucleus'
FilterNucleus ==
    <<"n", "u", "c", "l", "e", "u", "s">>
\* 'trust view'
FilterTrustView ==
    <<"t", "r", "u", "s", "t", " ", "v", "i", "e", "w">>

RelevanceWindow == 100

\* request_type of lines 172-180 and 187-195, on the text as written
RelevanceRequestType(text) ==
    LET request_type_start == Find(text, LblRequestType, 0) + Len(LblRequestType)
        e1 == Find(text, TermPriority, request_type_start)
        e2 == Find(text, TermSubrequest, request_type_start)
        request_type_end == IF e1 # -1 THEN e1
                            ELSE IF e2 # -1 THEN e2
                            ELSE request_type_start + RelevanceWindow
    IN  Lower(TrimValue(Slice(text, request_type_start, request_type_end)))

\* whether the loop of lines 148-209 appends the message
IsRelevant(msg) ==
    LET text == Get(msg.text, <<>>)
        text_lower == Lower(text)
        is_workflow_request == AnyIn(WorkflowRequestKeywords, text_lower)
        labelled == Contains(LblRequestTypeLower, text_lower)
        is_nucleus_automation ==
            labelled /\ Contains(FilterNucleus, RelevanceRequestType(text))
        is_trustview_automation ==
            labelled /\ Strip(RelevanceRequestType(text)) = FilterTrustView
    IN  /\ msg.type = Some("message")
        /\ msg.bot_id = None \/ is_workflow_request
        /\ is_nucleus_automation \/ is_trustview_automation

\* the admission test of the message dicts, tabulated
AdmissionTable == {<<msg, IsRelevant(msg)>> : msg \in HistoryPool}

Admitted(msg) == Lookup(AdmissionTable, msg)

\* get_channel_messages(channel_id, days_back) given what
\* conversations.history answers, lines 136-215
get_channel_messages(response) ==
    IF response.error THEN <<>>
    ELSE LET admitted == SelectSeq(response.messages, Admitted)
         IN  [k \in 1..Len(admitted) |-> ToMessageData(admitted[k])]

(***************************************************************************)
(* send_digest_to_slack_channel, get_user_id_by_email, send_dm_digest      *)
(***************************************************************************)
\* 'C09GY0TUNBS'
TargetChannelId ==
    <<"C", "0", "9", "G", "Y", "0", "T", "U", "N", "B", "S">>

\* response['ts'] of the summary post
MainMessageTs == <<"5", "5", "5", ".", "1">>

\* the values response['ts'] of a summary post can have
SummaryTimestamps == {MainMessageTs, <<"5", "5", "6", ".", "2">>}

\* the default of channel_name, line 556: 'tmp-igors-slack-digests'
DefaultChannelName ==
    <<"t", "m", "p", "-", "i", "g", "o", "r", "s", "-", "s", "l", "a", "c", "k", "-", "d", "i", "g", "e", "s", "t", "s">>
\* another channel name: 'team-digests'
OtherChannelName ==
    <<"t", "e", "a", "m", "-", "d", "i", "g", "e", "s", "t", "s">>
\* the id conversations.list gives for that channel: 'C777'
OtherChannelId ==
    <<"C", "7", "7", "7">>

\* what conversations.list does for a channel name other than the default:
\* its channels hold the name, or do not, or SlackApiError
ListOutcomes == {"found", "not_found", "SlackApiError"}

\* what chat.postMessage does: an ok response, a response that is not ok,
\* or SlackApiError
PostOutcomes == {"ok", "not_ok", "SlackApiError"}

\* what the two posts of send_digest_to_slack_channel do; the second is made
\* only after an ok first
SendOutcomes ==
    {o \in [list : {"none"}, main : PostOutcomes, ts : {MainMessageTs},
            reply : PostOutcomes \cup {"none"}] :
        (o.reply = "none") <=> (o.main # "ok")}

\* what the Slack API does during send_digest_to_slack_channel for a channel
\* name: conversations.list is called for other names than the default, the
\* summary is posted once the channel id is known, the reply once the
\* summary post was ok
ChannelOutcomes(channel_name) ==
    {o \in [list : ListOutcomes \cup {"none"}, main : PostOutcomes \cup {"none"},
            ts : SummaryTimestamps, reply : PostOutcomes \cup {"none"}] :
        /\ (o.list = "none") <=> (channel_name = DefaultChannelName)
        /\ (o.main = "none") <=> (o.list \in {"not_found", "SlackApiError"})
        /\ (o.reply = "none") <=> (o.main # "ok")
        /\ (o.main # "ok") => (o.ts = MainMessageTs)}

\* the recipient, what users.lookupByEmail does and what the post of
\* send_dm_digest does
DmOutcomes ==
    {[email |-> FALSE, lookup |-> "none", post |-> "none"],
     [email |-> TRUE, lookup |-> "SlackApiError", post |-> "none"],
     [email |-> TRUE, lookup |-> "found", post |-> "ok"],
     [email |-> TRUE, lookup |-> "found", post |-> "SlackApiError"]}

\* the id users.lookupByEmail finds
RecipientId == <<"U", "9">>

\* the breakdown dict lines 583-597 build from the lines with the given tag,
\* as the pairs kept by `if v > 0`, in insertion order
Breakdown(lines, tag, known) ==
    LET found == SelectSeq(lines, LAMBDA line : line[1] = tag /\ line[2] \in known /\ line[3] > 0)
    IN  [k \in 1..Len(found) |-> <<found[k][2], found[k][3]>>]

\* one_liner, lines 578-603; no line of a digest holds '**Total Messages**:',
\* so total_messages stays 0
OneLiner(lines) ==
    <<"one_liner", 0, Breakdown(lines, "workflow", {"Trust View", "Nucleus", "Other"}),
      Breakdown(lines, "severity", {"Medium", "High", "Low"})>>

\* target_channel_id, lines 560-576 (None when no channel has the name)
TargetOf(channel_name, outcome) ==
    IF channel_name = DefaultChannelName THEN Some(TargetChannelId)
    ELSE IF outcome.list = "found" THEN Some(OtherChannelId)
    ELSE None

\* send_digest_to_slack_channel with the digest posted as a message of its
\* own and the outcome of the reply left out of the value returned
SendUnthreaded(lines, channel_name, outcome) ==
    LET target == TargetOf(channel_name, outcome)
        main == [channel |-> target[1], text |-> OneLiner(lines), thread_ts |-> None]
        reply == [channel |-> target[1], text |-> lines, thread_ts |-> None]
    IN  IF outcome.list = "SlackApiError" \/ target = None
        THEN [sent |-> FALSE, posts |-> <<>>]
        ELSE IF outcome.main # "ok" THEN [sent |-> FALSE, posts |-> <<>>]
        ELSE IF outcome.reply # "ok" THEN [sent |-> TRUE, posts |-> <<main>>]
        ELSE [sent |-> TRUE, posts |-> <<main, reply>>]

\* send_digest_to_slack_channel(digest_content, channel_name), lines 556-637:
\* the value returned and the messages posted
send_digest_to_slack_channel(lines, channel_name, outcome) ==
    LET target == TargetOf(channel_name, outcome)
        main == [channel |-> target[1], text |-> OneLiner(lines), thread_ts |-> None]
        reply == [channel |-> target[1], text |-> lines,
                  thread_ts |-> Some(outcome.ts)]
    IN  IF outcome.list = "SlackApiError" \/ target = None
        THEN [sent |-> FALSE, posts |-> <<>>]
        ELSE IF outcome.main # "ok" THEN [sent |-> FALSE, posts |-> <<>>]
        ELSE IF outcome.reply # "ok" THEN [sent |-> FALSE, posts |-> <<main>>]
        ELSE [sent |-> TRUE, posts |-> <<main, reply>>]

\* lines 516-528: the messages posted for the recipient
SendDm(lines, outcome) ==
    IF outcome.email /\ outcome.lookup = "found" /\ outcome.post = "ok"
    THEN <<[channel |-> RecipientId, text |-> lines, thread_ts |-> None]>>
    ELSE <<>>

(***************************************************************************)
(* create_weekly_digest_for_channel                                        *)
(***************************************************************************)
\* the entry point has not run
NotRun ==
    [kind |-> "none", value |-> None, response |-> <<>>, messages |-> <<>>,
     channel_info |-> [name |-> <<>>], test_mode |-> FALSE, generated |-> FALSE,
     file |-> None, posts |-> <<>>]

\* the entry point without the early return of lines 489-491
EntryWithoutEarlyReturn(channel_info, response, messages, test_mode, content, send, dm) ==
    LET base == [kind |-> "returned", value |-> None, response |-> response.messages,
                 messages |-> messages, channel_info |-> channel_info,
                 test_mode |-> test_mode, generated |-> TRUE, file |-> None,
                 posts |-> <<>>]
    IN  IF content.kind = "ValueError"
        THEN [base EXCEPT !.kind = "raised", !.value = Some("ValueError")]
        ELSE IF test_mode
        THEN [base EXCEPT !.value = Some(content.lines), !.file = Some(content.lines)]
        ELSE [base EXCEPT !.value = Some(content.lines),
                          !.posts = send_digest_to_slack_channel(content.lines, DefaultChannelName,
                                                                      send).posts
                                        \o SendDm(content.lines, dm)]

\* create_weekly_digest_for_channel(channel_id, recipient_email, days_back,
\* test_mode), lines 478-530, from the messages fetched on, content being
\* what generate_final_digest_content does with them: how the call ends,
\* the value returned, whether generate_final_digest_content was called, the
\* file written and the messages posted
Entry(channel_info, response, messages, test_mode, content, send, dm) ==
    LET base == [kind |-> "returned", value |-> None, response |-> response.messages,
                 messages |-> messages, channel_info |-> channel_info,
                 test_mode |-> test_mode, generated |-> messages # <<>>, file |-> None,
                 posts |-> <<>>]
    IN  IF messages = <<>> THEN base
        ELSE IF content.kind = "ValueError"
        THEN [base EXCEPT !.kind = "raised", !.value = Some("ValueError")]
        ELSE IF test_mode
        THEN [base EXCEPT !.value = Some(content.lines), !.file = Some(content.lines)]
        ELSE [base EXCEPT !.value = Some(content.lines),
                          !.posts = send_digest_to_slack_channel(content.lines, DefaultChannelName,
                                                                      send).posts
                                        \o SendDm(content.lines, dm)]

(***************************************************************************)
(* The extractors called on their own                                      *)
(***************************************************************************)
\* the pieces the texts of request forms are put together from
FieldFragments ==
    <<
      \* '*Description:* dash is down '
      <<"*", "D", "e", "s", "c", "r", "i", "p", "t", "i", "o", "n", ":", "*", " ", "d", "a", "s", "h", " ", "i", "s", " ", "d", "o", "w", "n", " ">>,
      \* '*Summary:* slow page '
      <<"*", "S", "u", "m", "m", "a", "r", "y", ":", "*", " ", "s", "l", "o", "w", " ", "p", "a", "g", "e", " ">>,
      \* '*Application Name:* app '
      <<"*", "A", "p", "p", "l", "i", "c", "a", "t", "i", "o", "n", " ", "N", "a", "m", "e", ":", "*", " ", "a", "p", "p", " ">>,
      \* '*Division:* div '
      <<"*", "D", "i", "v", "i", "s", "i", "o", "n", ":", "*", " ", "d", "i", "v", " ">>,
      \* '*Alias or Service ID:* id7 '
      <<"*", "A", "l", "i", "a", "s", " ", "o", "r", " ", "S", "e", "r", "v", "i", "c", "e", " ", "I", "D", ":", "*", " ", "i", "d", "7", " ">>,
      \* 'Request Type: Nucleus '
      <<"R", "e", "q", "u", "e", "s", "t", " ", "T", "y", "p", "e", ":", " ", "N", "u", "c", "l", "e", "u", "s", " ">>,
      \* '*Priority:* High '
      <<"*", "P", "r", "i", "o", "r", "i", "t", "y", ":", "*", " ", "H", "i", "g", "h", " ">>,
      \* '*Subrequest Type:* Access '
      <<"*", "S", "u", "b", "r", "e", "q", "u", "e", "s", "t", " ", "T", "y", "p", "e", ":", "*", " ", "A", "c", "c", "e", "s", "s", " ">>,
      \* 'request type: trust view '
      <<"r", "e", "q", "u", "e", "s", "t", " ", "t", "y", "p", "e", ":", " ", "t", "r", "u", "s", "t", " ", "v", "i", "e", "w", " ">>
    >>

\* texts without a description or a summary: of two lines, of blank lines
\* before the first line, and of one line of 132 characters
\* 'portal is slow today\nplease check the nucleus dashboard'
TwoLineText ==
    <<"p", "o", "r", "t", "a", "l", " ", "i", "s", " ", "s", "l", "o", "w", " ", "t", "o", "d", "a", "y", "\n", "p", "l", "e", "a", "s", "e", " ", "c", "h", "e", "c", "k", " ", "t", "h", "e", " ", "n", "u", "c", "l", "e", "u", "s", " ", "d", "a", "s", "h", "b", "o", "a", "r", "d">>
\* '\n  \nonly line\nlast line'
BlankFirstLineText ==
    <<"\n", " ", " ", "\n", "o", "n", "l", "y", " ", "l", "i", "n", "e", "\n", "l", "a", "s", "t", " ", "l", "i", "n", "e">>
\* 'word01 word02 word03 word04 word05 word06 word07 word08 word09 word10 word11 word12 word13 word14 word15 word16 word17 word18 word19'
LongLineText ==
    <<"w", "o", "r", "d", "0", "1", " ", "w", "o", "r", "d", "0", "2", " ", "w", "o", "r", "d", "0", "3", " ", "w", "o", "r", "d", "0", "4", " ", "w", "o", "r", "d", "0", "5", " ", "w", "o", "r", "d", "0", "6", " ", "w", "o", "r", "d", "0", "7", " ", "w", "o", "r", "d", "0", "8", " ", "w", "o", "r", "d", "0", "9", " ", "w", "o", "r", "d", "1", "0", " ", "w", "o", "r", "d", "1", "1", " ", "w", "o", "r", "d", "1", "2", " ", "w", "o", "r", "d", "1", "3", " ", "w", "o", "r", "d", "1", "4", " ", "w", "o", "r", "d", "1", "5", " ", "w", "o", "r", "d", "1", "6", " ", "w", "o", "r", "d", "1", "7", " ", "w", "o", "r", "d", "1", "8", " ", "w", "o", "r", "d", "1", "9">>

\* texts with a description of one word, and of 41 words of which the
\* last 21 are longer than a preview line
\* '*Description:* outage'
OneWordDescriptionText ==
    <<"*", "D", "e", "s", "c", "r", "i", "p", "t", "i", "o", "n", ":", "*", " ", "o", "u", "t", "a", "g", "e">>
\* '*Description:* word01 word02 word03 word04 word05 word06 word07 word08 word09 word10 word11 word12 word13 word14 word15 word16 word17 word18 word19 word20 word21 word22 word23 word24 word25 word26 word27 word28 word29 word30 word31 word32 word33 word34 word35 word36 word37 word38 word39 word40 word41'
LongDescriptionText ==
    <<"*", "D", "e", "s", "c", "r", "i", "p", "t", "i", "o", "n", ":", "*", " ", "w", "o", "r", "d", "0", "1", " ", "w", "o", "r", "d", "0", "2", " ", "w", "o", "r", "d", "0", "3", " ", "w", "o", "r", "d", "0", "4", " ", "w", "o", "r", "d", "0", "5", " ", "w", "o", "r", "d", "0", "6", " ", "w", "o", "r", "d", "0", "7", " ", "w", "o", "r", "d", "0", "8", " ", "w", "o", "r", "d", "0", "9", " ", "w", "o", "r", "d", "1", "0", " ", "w", "o", "r", "d", "1", "1", " ", "w", "o", "r", "d", "1", "2", " ", "w", "o", "r", "d", "1", "3", " ", "w", "o", "r", "d", "1", "4", " ", "w", "o", "r", "d", "1", "5", " ", "w", "o", "r", "d", "1", "6", " ", "w", "o", "r", "d", "1", "7", " ", "w", "o", "r", "d", "1", "8", " ", "w", "o", "r", "d", "1", "9", " ", "w", "o", "r", "d", "2", "0", " ", "w", "o", "r", "d", "2", "1", " ", "w", "o", "r", "d", "2", "2", " ", "w", "o", "r", "d", "2", "3", " ", "w", "o", "r", "d", "2", "4", " ", "w", "o", "r", "d", "2", "5", " ", "w", "o", "r", "d", "2", "6", " ", "w", "o", "r", "d", "2", "7", " ", "w", "o", "r", "d", "2", "8", " ", "w", "o", "r", "d", "2", "9", " ", "w", "o", "r", "d", "3", "0", " ", "w", "o", "r", "d", "3", "1", " ", "w", "o", "r", "d", "3", "2", " ", "w", "o", "r", "d", "3", "3", " ", "w", "o", "r", "d", "3", "4", " ", "w", "o", "r", "d", "3", "5", " ", "w", "o", "r", "d", "3", "6", " ", "w", "o", "r", "d", "3", "7", " ", "w", "o", "r", "d", "3", "8", " ", "w", "o", "r", "d", "3", "9", " ", "w", "o", "r", "d", "4", "0", " ", "w", "o", "r", "d", "4", "1">>

PreviewTexts ==
    {TwoLineText, BlankFirstLineText, LongLineText, OneWordDescriptionText,
     LongDescriptionText}

\* the texts the extractors are studied on
ExtractTexts == Concats(FieldFragments, MaxFrags) \cup PreviewTexts

\* what the code computes from one text: the values of _extract_subject
\* (lines 704-725), _extract_summary and _extract_description, whether each
\* of the three request-type readers finds its label and the value it
\* slices, and the preview of lines 380-445 for a message of this text
ExtractAll(text) ==
    [text |-> text,
     request_type |-> SubjectFromRequestType(text),
     subrequest_type |-> SubjectFromSubrequestType(text),
     summary |-> _extract_summary(text),
     description |-> DescriptionField(text),
     subject |-> _extract_subject(text),
     filter_label |-> Contains(LblRequestTypeLower, Lower(text)),
     filter_value |-> RelevanceRequestType(text),
     classifier_label |-> Contains(LblRequestTypeLower, Lower(text)),
     classifier_value |-> RequestTypeValue(Lower(text)),
     subject_label |-> Contains(LblRequestType, text),
     preview_lines |-> PreviewLines(Strip(ReplaceChar(text, "\n", " ")))]

NotExtracted == [text |-> <<>>]

(***************************************************************************)
(* send_digest_to_slack_channel called on its own                          *)
(***************************************************************************)
\* the texts sent: those generate_final_digest_content returns for the
\* lists of messages of the pool, the empty list included
SendContents ==
    UNION {{Digest(<<>>, {}, [name |-> ChannelName], q, DaysBack, 10, FactsOf(q),
                   cats).lines :
                cats \in CategorizeAll(Reorder(q, SortedPositions(FactsOf(q))))} :
           q \in SeqsUpTo(Pool, MaxMsgs)}

NotSent ==
    [channel_name |-> <<>>, content |-> <<>>, outcome |-> "none", returned |-> FALSE,
     posts |-> <<>>]

(***************************************************************************)
(* The classifier called on its own                                        *)
(***************************************************************************)
Unclassified ==
    [severity |-> "", is_question |-> FALSE, workflow |-> "", jira_tickets |-> <<>>,
     has_thread |-> FALSE, reaction_count |-> 0, resolution_confidence |-> 0]

NoRun ==
    [given |-> <<>>, channel_info |-> [name |-> <<>>], now |-> 0, kind |-> "none",
     lines |-> <<>>, sections |-> <<>>, error |-> <<>>, tiers |-> NoTiers]

\* __init__, lines 58-63
NewSystem ==
    /\ users_cache = <<>>
    /\ lookups = <<>>
    /\ first_run = NoRun
    /\ last_run = NoRun
    /\ pc = "start"
    /\ run = NotRun
    /\ sent = NotSent
    /\ extracted = NotExtracted

ClassifyInit ==
    /\ studied \in ClassifyInputs
    /\ arg = studied
    /\ category = Unclassified
    /\ path = {}
    /\ original = <<>>
    /\ failing = {}
    /\ held = <<>>
    /\ NewSystem

\* a call categorize_message(m)
CategorizeMessage ==
    /\ \E m \in {studied} \cup OtherMessages :
        \E c \in categorize_message(m) :
            /\ arg' = m
            /\ category' = c
            /\ path' = WorkflowPath(Lower(m.text))
    /\ UNCHANGED <<studied, digestVars, runVars, extractVars>>

ClassifyNext == CategorizeMessage

SpecClassify == ClassifyInit /\ [][ClassifyNext]_vars

ExtractInit ==
    /\ studied \in {MessageData(<<"U", "1">>, t, <<"1", "0", "0">>, None, None) :
                        t \in ExtractTexts}
    /\ arg = studied
    /\ category = Unclassified
    /\ path = {}
    /\ original = <<>>
    /\ failing = {}
    /\ held = <<>>
    /\ NewSystem

\* the extractors and the preview applied to the text of the studied message
ExtractFields ==
    /\ extracted = NotExtracted
    /\ extracted' = ExtractAll(studied.text)
    /\ UNCHANGED <<classifyVars, digestVars, runVars>>

ExtractNext == ExtractFields

SpecExtract == ExtractInit /\ [][ExtractNext]_vars

Init ==
    /\ original \in SeqsUpTo(Pool, MaxMsgs)
    /\ failing \in SUBSET UserIds
    /\ held = original
    /\ NewSystem
    /\ studied = MessageData(<<"U", "1">>, <<>>, <<"1", "0", "0">>, None, None)
    /\ arg = studied
    /\ category = Unclassified
    /\ path = {}

\* a call generate_final_digest_content(channel_info, list, days_back), the
\* list being the caller's list object or a new list equal to the original
GenerateFinalDigestContent ==
    /\ \E fresh \in BOOLEAN, now \in Nows :
        \E given \in {IF fresh THEN original ELSE held} :
        \E facts \in {FactsOf(given)} :
        \E cats \in CategorizeAll(Reorder(given, SortedPositions(facts))) :
        \E r \in {Digest(users_cache, failing, [name |-> ChannelName], given,
                          DaysBack, now, facts, cats)} :
        \E call \in {[given |-> given, channel_info |-> [name |-> ChannelName],
                        now |-> now, kind |-> r.kind, lines |-> r.lines,
                        sections |-> r.sections, error |-> r.error,
                        tiers |-> r.tiers]} :
            /\ held' = IF fresh THEN held ELSE r.messages
            /\ users_cache' = r.cache
            /\ lookups' = Tally(lookups, r.calls)
            /\ last_run' = call
            /\ first_run' = IF first_run = NoRun THEN call ELSE first_run
    /\ UNCHANGED <<classifyVars, original, failing, runVars, extractVars>>

Next == GenerateFinalDigestContent

Spec == Init /\ [][Next]_vars

(***************************************************************************)
(* The script: one call of the entry point                                 *)
(***************************************************************************)
RunInit ==
    /\ original = <<>>
    /\ failing \in {{}, UserIds}
    /\ held = original
    /\ NewSystem
    /\ studied = MessageData(<<"U", "1">>, <<>>, <<"1", "0", "0">>, None, None)
    /\ arg = studied
    /\ category = Unclassified
    /\ path = {}

\* a call create_weekly_digest_for_channel(channel_id, recipient_email,
\* days_back, test_mode), lines 478-530, with what the Slack API answers
CreateWeeklyDigestForChannel ==
    /\ pc = "start"
    /\ \E info_ok \in BOOLEAN, response \in HistoryResponses, test_mode \in BOOLEAN,
          now \in Nows :
        \E channel_info \in {get_channel_info(ChannelId, info_ok)} :
        \E fetched \in {get_channel_messages(response)} :
        \E facts \in {FactsOf(fetched)} :
        \E cats \in CategorizeAll(Reorder(fetched, SortedPositions(facts))) :
        \E r \in {Digest(users_cache, failing, channel_info, fetched, DaysBack, now,
                          facts, cats)} :
        \E posting \in {fetched # <<>> /\ r.kind = "text" /\ ~test_mode} :
        \E send \in IF posting THEN SendOutcomes
                     ELSE {[list |-> "none", main |-> "SlackApiError",
                            ts |-> MainMessageTs, reply |-> "none"]},
           dm \in IF posting THEN DmOutcomes
                   ELSE {[email |-> FALSE, lookup |-> "none", post |-> "none"]} :
        \E result \in {Entry(channel_info, response, fetched, test_mode, r, send, dm)} :
        \E call \in {[given |-> fetched, channel_info |-> channel_info, now |-> now,
                        kind |-> r.kind, lines |-> r.lines, sections |-> r.sections,
                        error |-> r.error, tiers |-> r.tiers]} :
            /\ run' = result
            /\ users_cache' = IF result.generated THEN r.cache ELSE users_cache
            /\ lookups' = IF result.generated THEN Tally(lookups, r.calls) ELSE lookups
            /\ last_run' = IF result.generated THEN call ELSE last_run
            /\ first_run' = IF result.generated /\ first_run = NoRun
                            THEN call ELSE first_run
    /\ pc' = "done"
    /\ UNCHANGED <<classifyVars, original, failing, held, sent, extractVars>>

RunNext == CreateWeeklyDigestForChannel \/ GenerateFinalDigestContent

SpecRun == RunInit /\ [][RunNext]_vars

SendInit ==
    /\ original = <<>>
    /\ failing = {}
    /\ held = original
    /\ NewSystem
    /\ studied = MessageData(<<"U", "1">>, <<>>, <<"1", "0", "0">>, None, None)
    /\ arg = studied
    /\ category = Unclassified
    /\ path = {}

\* a call send_digest_to_slack_channel(digest_content, channel_name), with
\* what the Slack API answers
SendDigestToSlackChannel ==
    /\ sent = NotSent
    /\ \E content \in SendContents, channel_name \in {DefaultChannelName, OtherChannelName} :
        \E outcome \in ChannelOutcomes(channel_name) :
        \E result \in {send_digest_to_slack_channel(content, channel_name, outcome)} :
            sent' = [channel_name |-> channel_name, content |-> content,
                     outcome |-> outcome, returned |-> result.sent,
                     posts |-> result.posts]
    /\ UNCHANGED <<classifyVars, digestVars, pc, run, extractVars>>

SendNext == SendDigestToSlackChannel

SpecSend == SendInit /\ [][SendNext]_vars

Classified == category # Unclassified

(***************************************************************************)
(* Claims about categorize_message and extract_jira_tickets                *)
(***************************************************************************)
RECURSIVE SumCounts(_)
\* the sum of the count values of a list of reaction records
SumCounts(q) == IF q = <<>> THEN 0 ELSE Head(q).count + SumCounts(Tail(q))

Min(a, b) == IF a < b THEN a ELSE b

\* C1: every classification has 0.0 <= resolution_confidence <= 1.0
\* (0 <= tenths <= 10), whatever the text, thread_ts and reactions.
C1_ConfidenceInUnitInterval ==
    Classified =>
        /\ category.resolution_confidence >= 0
        /\ category.resolution_confidence <= 10

\* a classification whose unclamped sum 0.5 + 0.3 + 0.1 * 3 exceeds 1.0
C1_Witness ==
    /\ Classified
    /\ arg.thread_ts # None
    /\ arg.reactions # None
    /\ Len(arg.reactions[1]) >= MaxReactions
    /\ category.resolution_confidence = 10

\* C2: reaction_count is the sum of the count values of the reaction records
\* and resolution_confidence is min(1.0, 0.5 + 0.3 * thread + 0.1 * reaction_count).
C2_ReactionCountIsSumOfCounts ==
    Classified =>
        LET total == IF arg.reactions = None THEN 0
                     ELSE SumCounts(arg.reactions[1])
        IN  /\ category.reaction_count = total
            /\ category.resolution_confidence =
                   Min(10, 5 + (IF arg.thread_ts # None THEN 3 ELSE 0) + total)

\* C5: severity is High when a high keyword occurs in the lower-cased text
\* (also when a low keyword occurs too), else Low when a low keyword occurs,
\* else Medium; it is a function of the text alone in every reachable state.
C5_SeverityByKeywordPrecedence ==
    Classified =>
        LET text == Lower(arg.text)
            high == \E k \in 1..Len(HighKeywords) : Contains(HighKeywords[k], text)
            low == \E k \in 1..Len(LowKeywords) : Contains(LowKeywords[k], text)
        IN  /\ category.severity \in {"High", "Medium", "Low"}
            /\ high => category.severity = "High"
            /\ (~high /\ low) => category.severity = "Low"
            /\ (~high /\ ~low) => category.severity = "Medium"

\* a text with a high and a low keyword, classified High
C5_Witness ==
    /\ Classified
    /\ AnyIn(HighKeywords, Lower(arg.text))
    /\ AnyIn(LowKeywords, Lower(arg.text))
    /\ category.severity = "High"

\* C6: the keyword fallback runs exactly when the request_type field is
\* absent (the label does not occur, or the extracted value is empty after
\* trimming), never together with the field-based path, and a present field
\* alone decides the workflow.
C6_FallbackIffFieldAbsent ==
    Classified =>
        LET text == Lower(arg.text)
            absent == \/ ~Contains(LblRequestTypeLower, text)
                      \/ RequestTypeValue(text) = <<>>
        IN  /\ ("fallback" \in path) <=> absent
            /\ ~({"field", "fallback"} \subseteq path)
            /\ absent => category.workflow = WorkflowFallback(text)
            /\ ~absent => category.workflow = WorkflowFromField(RequestTypeValue(text))

\* C7: without the request-type label the workflow is that of the first
\* keyword group, in the order nucleus, trust, search, deployment, with a
\* keyword in the lower-cased text; Other when no group has one.
C7_FallbackPriorityOrder ==
    (Classified /\ ~Contains(LblRequestTypeLower, Lower(arg.text))) =>
        LET text == Lower(arg.text)
            groups == <<NucleusKeywords, TrustKeywords, SearchKeywords, DeploymentKeywords>>
            names == <<"Nucleus", "Trust View", "Search", "Deployment">>
            hits == {g \in 1..4 : AnyIn(groups[g], text)}
        IN  IF hits = {} THEN category.workflow = "Other"
            ELSE \E g \in hits :
                    /\ \A h \in hits : g <= h
                    /\ category.workflow = names[g]

\* a text without the label that has a trust and a nucleus keyword
C7_Witness ==
    /\ Classified
    /\ ~Contains(LblRequestTypeLower, Lower(arg.text))
    /\ AnyIn(TrustKeywords, Lower(arg.text))
    /\ AnyIn(NucleusKeywords, Lower(arg.text))
    /\ Find(Lower(arg.text), TrustKeywords[1], 0)
           < Find(Lower(arg.text), NucleusKeywords[1], 0)
    /\ category.workflow = "Nucleus"

RECURSIVE FirstSeen(_, _)
\* the distinct elements of q in the order of their first occurrence
FirstSeen(q, seen) ==
    IF q = <<>> THEN <<>>
    ELSE IF Head(q) \in seen THEN FirstSeen(Tail(q), seen)
    ELSE <<Head(q)>> \o FirstSeen(Tail(q), seen \cup {Head(q)})

\* C9: extract_jira_tickets returns the distinct whole-word tokens
\* UPPERCASE-digits once each, in the order of first occurrence in the text.
C9_TicketsInFirstSeenOrder ==
    Classified => category.jira_tickets = FirstSeen(FindAllJira(arg.text, 0), {})

(***************************************************************************)
(* Claims about generate_final_digest_content                              *)
(***************************************************************************)
\* the latest call returned a digest of at least one message
Rendered == last_run.kind = "text" /\ last_run.given # <<>>

\* the lines of the latest digest with the given tag
LinesTagged(tag) == SelectSeq(last_run.lines, LAMBDA line : line[1] = tag)

RECURSIVE SumOfCounts(_)
\* the sum of the counts of workflow or severity lines
SumOfCounts(lines) ==
    IF lines = <<>> THEN 0 ELSE Head(lines)[3] + SumOfCounts(Tail(lines))

\* C3: every message is listed once, under its own day; within a day
\* section the messages are in ascending timestamp order, two messages of
\* equal timestamp in the order they had in the list given; the day sections
\* are in descending date order.
C3_DaySectionsOrdered ==
    Rendered =>
        LET given == last_run.given
            sections == last_run.sections
            key(p) == FloatTenths(given[p].timestamp)
        IN  /\ \A p \in 1..Len(given) :
                   Cardinality({<<d, k>> \in (1..Len(sections)) \X (1..Len(given)) :
                                   /\ k <= Len(sections[d].positions)
                                   /\ sections[d].positions[k] = p}) = 1
            /\ \A d \in 1..Len(sections) :
                   LET positions == sections[d].positions
                   IN  /\ \A k \in 1..Len(positions) :
                              DayKey(given[positions[k]].timestamp) = sections[d].day
                       /\ \A a, b \in 1..Len(positions) :
                              a < b =>
                                \/ key(positions[a]) < key(positions[b])
                                \/ /\ key(positions[a]) = key(positions[b])
                                   /\ positions[a] < positions[b]
            /\ \A d, e \in 1..Len(sections) :
                   d < e => StrLess(sections[e].day, sections[d].day)

\* a digest of several days given out of timestamp order, one day listing
\* two messages of equal timestamp
C3_Witness ==
    /\ Rendered
    /\ Len(last_run.sections) >= 2
    /\ \E p, q \in 1..Len(last_run.given) :
           /\ p < q
           /\ FloatTenths(last_run.given[q].timestamp)
                  < FloatTenths(last_run.given[p].timestamp)
    /\ \E d \in 1..Len(last_run.sections) :
           LET positions == last_run.sections[d].positions
           IN  /\ Len(positions) >= 2
               /\ FloatTenths(last_run.given[positions[1]].timestamp)
                      = FloatTenths(last_run.given[positions[2]].timestamp)
               /\ last_run.given[positions[1]] # last_run.given[positions[2]]

\* C4: for a non-empty message sequence the counts of the workflow
\* breakdown add up to total_messages, and so do the counts of the severity
\* breakdown.
C4_TalliesAddUpToTotal ==
    Rendered =>
        /\ Len(LinesTagged("total")) = 1
        /\ LinesTagged("total")[1][2] = Len(last_run.given)
        /\ SumOfCounts(LinesTagged("workflow")) = LinesTagged("total")[1][2]
        /\ SumOfCounts(LinesTagged("severity")) = LinesTagged("total")[1][2]

\* a digest with two workflows, one of them tallied twice
C4_Witness ==
    /\ Rendered
    /\ Len(LinesTagged("workflow")) = 2
    /\ \E k \in 1..2 : LinesTagged("workflow")[k][3] = 2
    /\ Len(LinesTagged("severity")) >= 2

\* C10: a call on the same message sequence with the same channel info, the
\* same datetime.now() and the same users.info answers returns the text the
\* first call returned, whatever users_cache and the list object kept from
\* earlier calls.
C10_SecondRunSameOutput ==
    (/\ first_run.kind # "none"
     /\ last_run.channel_info = first_run.channel_info
     /\ last_run.now = first_run.now) =>
        /\ last_run.kind = first_run.kind
        /\ last_run.lines = first_run.lines

\* a later call that found a failed lookup in users_cache and was given the
\* list the first call had put in another order
C10_Witness ==
    /\ first_run.kind = "text"
    /\ last_run.kind = "text"
    /\ last_run.now = first_run.now
    /\ last_run.given # first_run.given
    /\ \E u \in DOMAIN users_cache : users_cache[u] = "Unknown User"
    /\ \E k \in 1..Len(first_run.lines) :
           first_run.lines[k][1] = "msg" /\ first_run.lines[k][3] = "Unknown User"

(***************************************************************************)
(* Claims about create_weekly_digest_for_channel                           *)
(***************************************************************************)
\* C8: a report run on an empty message sequence raises nothing and its
\* output is the "no messages" sentinel document, for
\* generate_final_digest_content and for create_weekly_digest_for_channel.
C8_EmptyRunYieldsSentinel ==
    /\ (last_run.kind # "none" /\ last_run.given = <<>>) =>
            /\ last_run.kind = "text"
            /\ last_run.lines = NoMessagesText
    /\ (pc = "done" /\ run.messages = <<>>) =>
            /\ run.kind = "returned"
            /\ run.value = Some(NoMessagesText)

\* C8 as amended: generate_final_digest_content on an empty sequence raises
\* nothing and returns the sentinel document; create_weekly_digest_for_channel
\* that fetched no message raises nothing and returns None, without calling
\* generate_final_digest_content, writing a file or posting.
C8_EmptyRunReturnsNone ==
    /\ (last_run.kind # "none" /\ last_run.given = <<>>) =>
            /\ last_run.kind = "text"
            /\ last_run.lines = NoMessagesText
    /\ (pc = "done" /\ run.messages = <<>>) =>
            /\ run.kind = "returned"
            /\ run.value = None
            /\ ~run.generated
            /\ run.file = None
            /\ run.posts = <<>>

\* generate_final_digest_content was called on an empty list, and the entry
\* point in test mode was answered two messages and admitted none
C8_Witness ==
    /\ last_run.kind = "text"
    /\ last_run.given = <<>>
    /\ pc = "done"
    /\ run.test_mode
    /\ Len(run.response) = 2
    /\ run.messages = <<>>
    /\ run.value = None

(***************************************************************************)
(* Claims about failures                                                   *)
(***************************************************************************)
\* 'timestamp', the name of the field of MessageData
FieldTimestamp ==
    <<"t", "i", "m", "e", "s", "t", "a", "m", "p">>

\* the positions of the messages of a list whose timestamp float() rejects
Unparseable(q) == {i \in 1..Len(q) : ~Lookup(FactsTable, q[i]).parses}

\* a run given a message with an unparseable timestamp raised, returned no
\* text, wrote no file and posted nothing
BadTimestampStopsRun ==
    /\ (last_run.kind # "none" /\ Unparseable(last_run.given) # {}) =>
            /\ last_run.kind = "ValueError"
            /\ last_run.lines = <<>>
    /\ (pc = "done" /\ Unparseable(run.messages) # {}) =>
            /\ run.kind = "raised"
            /\ run.file = None
            /\ run.posts = <<>>

\* C11: a run given a message whose timestamp is not parseable as a number
\* (the empty string included) fails with an error that identifies the
\* message or the field (it names the field timestamp, or carries the
\* message's own non-empty timestamp), and returns no report, partial or
\* with the message dropped.
C11_BadTimestampFailsNamingField ==
    /\ BadTimestampStopsRun
    /\ (last_run.kind # "none" /\ Unparseable(last_run.given) # {}) =>
            \E i \in Unparseable(last_run.given) :
                \/ Contains(FieldTimestamp, last_run.error)
                \/ /\ last_run.given[i].timestamp # <<>>
                   /\ Contains(last_run.given[i].timestamp, last_run.error)

RECURSIVE ListedPositions(_)
\* the positions in the list given of the messages the day sections list,
\* in the order of the message lines of the text
ListedPositions(sections) ==
    IF sections = <<>> THEN <<>>
    ELSE Head(sections).positions \o ListedPositions(Tail(sections))

\* the id whose name a message line shows: the requester the text names,
\* else the user of the message
RequesterId(m) ==
    IF Lookup(FactsTable, m).actual_user # <<>>
    THEN Lookup(FactsTable, m).actual_user
    ELSE m.user

\* C12: a users.info lookup that fails (SlackApiError) never stops a run:
\* the run returns its text, the text has a message line for every message
\* given, and the line of a message whose requester's lookup fails shows
\* the name "Unknown User".
C12_FailedLookupYieldsSentinel ==
    (/\ last_run.kind # "none"
     /\ last_run.given # <<>>
     /\ Unparseable(last_run.given) = {}) =>
        LET listed == ListedPositions(last_run.sections)
            shown == LinesTagged("msg")
        IN  /\ last_run.kind = "text"
            /\ Len(shown) = Len(last_run.given)
            /\ Len(listed) = Len(shown)
            /\ \A k \in 1..Len(shown) :
                   LET id == RequesterId(last_run.given[listed[k]])
                   IN  (id \in failing \/ id \notin UserIds) =>
                            shown[k][3] = "Unknown User"

\* a digest of several messages, one from a requester whose lookup failed
\* and one from a requester whose lookup answered
C12_Witness ==
    /\ Rendered
    /\ \E a, b \in 1..Len(LinesTagged("msg")) :
           /\ RequesterId(last_run.given[ListedPositions(last_run.sections)[a]]) \in failing
           /\ LinesTagged("msg")[a][3] = "Unknown User"
           /\ RequesterId(last_run.given[ListedPositions(last_run.sections)[b]])
                  \in UserIds \ failing
           /\ LinesTagged("msg")[b][3] # "Unknown User"

(***************************************************************************)
(* Claims about the extractors and the preview                             *)
(***************************************************************************)
\* the extractors were applied to the studied text
Extracted == extracted # NotExtracted

\* the value of a labelled field that ends at the earliest terminator after
\* the label, or after the window when no terminator follows the label
ValueToEarliest(text, label, terminators, window) ==
    IF ~Contains(label, text) THEN <<>>
    ELSE LET start == Find(text, label, 0) + Len(label)
             ends == {Find(text, t, start) : t \in terminators} \ {-1}
         IN  TrimValue(Slice(text, start,
                             IF ends = {} THEN start + window ELSE Least(ends)))

\* C13: the value of each labelled field (request type, subrequest type,
\* summary, description) ends at the earliest position after the label where
\* one of the field's terminators occurs, whatever the order the terminators
\* are listed in, and after the fallback window only when none occurs.
C13_ValueEndsAtEarliestTerminator ==
    Extracted =>
        /\ extracted.request_type
              = ValueToEarliest(extracted.text, LblRequestType,
                                {TermPriority, TermSubrequest}, SubjectWindow)
        /\ extracted.subrequest_type
              = ValueToEarliest(extracted.text, LblSubrequestType,
                                {TermPriority}, SubrequestWindow)
        /\ extracted.summary
              = ValueToEarliest(extracted.text, LblSummary,
                                {TermApplication, TermAlias, TermDivision}, SummaryWindow)
        /\ extracted.description
              = ValueToEarliest(extracted.text, LblDescription,
                                {TermApplication, TermAlias, TermDivision},
                                DescriptionWindow)

\* C14: on every text the relevance filter of get_channel_messages, the
\* classifier and _extract_subject agree on whether the request-type label
\* occurs, and when it occurs they slice the same request-type value, up to
\* lower-casing.
C14_RequestTypeReadAlike ==
    Extracted =>
        /\ extracted.filter_label = extracted.classifier_label
        /\ extracted.classifier_label = extracted.subject_label
        /\ extracted.subject_label =>
              /\ extracted.filter_value = extracted.classifier_value
              /\ extracted.classifier_value = Lower(extracted.request_type)

\* the text of a message as the message loop reads it, line 380
Flattened(text) == Strip(ReplaceChar(text, "\n", " "))

\* the first two non-blank lines of a text, each cut to the line limit with
\* the ellipsis appended when it was cut
FirstTwoLines(text) ==
    LET lines == SplitOn(text, "\n")
        stripped == [k \in 1..Len(lines) |-> Strip(lines[k])]
        kept == SelectSeq(stripped, LAMBDA line : line # <<>>)
        first2 == Slice(kept, 0, 2)
    IN  [k \in 1..Len(first2) |->
            IF Len(first2[k]) > PreviewLineLimit
            THEN Slice(first2[k], 0, PreviewLineLimit) \o Ellipsis
            ELSE first2[k]]

\* C15: the preview of a message from which no description and no summary
\* is extracted is the first two non-blank lines of its raw text, each cut to
\* 120 characters with the ellipsis appended exactly when it was cut; a text
\* of two or more non-blank lines has a preview of two lines.
C15_PreviewIsFirstTwoLines ==
    (Extracted /\ _extract_description(Flattened(extracted.text)) = <<>>) =>
        extracted.preview_lines = FirstTwoLines(extracted.text)

(***************************************************************************)
(* Claims about the relevance filter                                       *)
(***************************************************************************)
\* C16: every message get_channel_messages admits is classified Nucleus or
\* Trust View by categorize_message, so that the workflow breakdown of a
\* digest built from fetched messages holds no other workflow.
C16_FetchedAreNucleusOrTrustView ==
    (pc = "done" /\ run.generated /\ run.kind = "returned") =>
        /\ \A k \in 1..Len(run.messages) :
               \A c \in CategoryFacts(run.messages[k]) :
                   c.workflow \in {"Nucleus", "Trust View"}
        /\ \A k \in 1..Len(LinesTagged("workflow")) :
               LinesTagged("workflow")[k][2] \in {"Nucleus", "Trust View"}

(***************************************************************************)
(* Claims about users_cache                                                *)
(***************************************************************************)
\* C17: over the calls made on one system, within a run and from run to
\* run, users.info is called at most once for each user id, whether the call
\* answered or failed; and an entry of users_cache, once made, is neither
\* changed nor removed, so that every later call returns the same name.
C17_LookupOncePerId ==
    /\ [](\A u \in DOMAIN lookups : lookups[u] <= 1 /\ u \in DOMAIN users_cache)
    /\ [][\A u \in DOMAIN users_cache :
              u \in DOMAIN users_cache' /\ users_cache'[u] = users_cache[u]]_vars

\* a later run rendered a requester whose lookup had failed in the first run
\* and one whose lookup had answered, each looked up once in all
C17_Witness ==
    /\ first_run.kind = "text"
    /\ last_run.kind = "text"
    /\ last_run.given # first_run.given
    /\ \E a, b \in 1..Len(first_run.given), c, d \in 1..Len(last_run.given) :
           /\ RequesterId(first_run.given[a]) = RequesterId(last_run.given[c])
           /\ RequesterId(first_run.given[a]) \in failing
           /\ RequesterId(first_run.given[b]) = RequesterId(last_run.given[d])
           /\ RequesterId(first_run.given[b]) \in UserIds \ failing
    /\ \A u \in DOMAIN lookups : lookups[u] = 1
    /\ Cardinality(DOMAIN lookups) >= 2

(***************************************************************************)
(* Claims about the resolution tiers                                       *)
(***************************************************************************)
\* the tier of a confidence in tenths: high from 0.8, likely from 0.6
Tier(confidence) ==
    IF confidence >= 8 THEN "RESOLVED"
    ELSE IF confidence >= 6 /\ confidence < 8 THEN "LIKELY"
    ELSE IF confidence < 6 THEN "NEEDS_ATTENTION"
    ELSE "none"

\* how many message lines of the latest digest show the given status
Marked(status) ==
    Cardinality({k \in 1..Len(LinesTagged("msg")) : LinesTagged("msg")[k][6] = status})

\* C18: for a non-empty input the three tiers partition the messages: the
\* counts of high-confidence, likely and needs-attention add up to
\* total_messages, the resolved count reported is the total less
\* needs-attention, and the status marker of each message line is the tier
\* the message was counted under.
C18_TiersPartitionMessages ==
    Rendered =>
        LET tiers == last_run.tiers
            total == Len(last_run.given)
            listed == ListedPositions(last_run.sections)
            shown == LinesTagged("msg")
        IN  /\ tiers.high_confidence_resolved + tiers.likely_resolved
                  + tiers.needs_attention = total
            /\ LinesTagged("resolution") =
                  << <<"resolution", total, total - tiers.needs_attention,
                       tiers.needs_attention>> >>
            /\ Marked("RESOLVED") = tiers.high_confidence_resolved
            /\ Marked("LIKELY") = tiers.likely_resolved
            /\ Marked("NEEDS_ATTENTION") = tiers.needs_attention
            /\ Len(shown) = total
            /\ \A k \in 1..Len(shown) :
                   \A c \in CategoryFacts(last_run.given[listed[k]]) :
                       shown[k][6] = Tier(c.resolution_confidence)

\* a digest of three messages, one in each tier
C18_Witness ==
    /\ Rendered
    /\ last_run.tiers = [high_confidence_resolved |-> 1, likely_resolved |-> 1,
                         needs_attention |-> 1]
    /\ Marked("LIKELY") = 1

\* the description the message loop extracts from the studied text
ShownDescription == _extract_description(Flattened(extracted.text))

\* C19: the preview built from an extracted description has one to three
\* lines, none of them empty, and the lines joined by single spaces are the
\* words of the description in their order, none dropped, repeated or moved,
\* whatever the number of words.
C19_PreviewKeepsTheWords ==
    (Extracted /\ ShownDescription # <<>>) =>
        /\ Len(extracted.preview_lines) \in 1..3
        /\ \A k \in 1..Len(extracted.preview_lines) : extracted.preview_lines[k] # <<>>
        /\ Join(extracted.preview_lines) = Join(SplitWords(ShownDescription))

\* a description of an odd number of words whose second half is longer than
\* a line, shown on three lines
C19_Witness ==
    /\ Extracted
    /\ ShownDescription # <<>>
    /\ Len(SplitWords(ShownDescription)) % 2 = 1
    /\ Len(extracted.preview_lines) = 3
    /\ Len(extracted.preview_lines[2]) > PreviewLineLimit

(***************************************************************************)
(* Claims about send_digest_to_slack_channel                               *)
(***************************************************************************)
\* send_digest_to_slack_channel was called
Sent == sent # NotSent

\* the posts of the latest call whose text is the full digest
DigestPosts == {k \in 1..Len(sent.posts) : sent.posts[k].text = sent.content}

\* C20: the full digest is posted only after the summary post succeeded, as
\* a reply in the thread of that post (thread_ts is the ts the summary post
\* returned); nothing of the digest is posted when the channel is not found
\* or the summary post is not ok; the call returns True exactly when both
\* posts were ok, and False, not an exception, after a Slack API error at
\* any step.
C20_DigestRepliesToSummary ==
    Sent =>
        /\ \A k \in DigestPosts :
               /\ k = 2
               /\ sent.outcome.main = "ok"
               /\ sent.posts[1].text = OneLiner(sent.content)
               /\ sent.posts[1].thread_ts = None
               /\ sent.posts[k].channel = sent.posts[1].channel
               /\ sent.posts[k].thread_ts = Some(sent.outcome.ts)
        /\ (sent.outcome.list = "not_found" \/ sent.outcome.main # "ok") =>
               DigestPosts = {}
        /\ sent.returned <=> (sent.outcome.main = "ok" /\ sent.outcome.reply = "ok")
        /\ ("SlackApiError" \in {sent.outcome.list, sent.outcome.main, sent.outcome.reply})
               => ~sent.returned
        /\ sent.returned => DigestPosts = {2}

\* a digest of several messages sent to a channel conversations.list found,
\* both posts ok, the summary post answered with the second timestamp
C20_Witness ==
    /\ Sent
    /\ sent.channel_name = OtherChannelName
    /\ sent.outcome.list = "found"
    /\ sent.outcome.ts # MainMessageTs
    /\ sent.returned
    /\ Len(sent.posts) = 2
    /\ sent.posts[2].channel = OtherChannelId
    /\ sent.posts[2].thread_ts = Some(sent.outcome.ts)
    /\ sent.content # NoMessagesText

=============================================================================
